---- MODULE Spec2Model ----
(***************************************************************************)
(* The elastic-particle simulation of 3d2.py ("Gas Particle Simulation")   *)
(* and next.py (the same simulation with motion trails): the setup loop,   *)
(* the main loop, Particle.update and resolve_collision.                   *)
(*                                                                         *)
(* Numbers.  The scripts compute in floating point.  The model computes in *)
(* exact rational arithmetic: a number is a pair <<n, d>> with d > 0 and   *)
(* gcd(n, d) = 1.  Every input the specifications draw is chosen so that   *)
(* each centre distance handed to math.hypot has a rational root (bodies   *)
(* on one axis-parallel line, or offsets that are multiples of a 3-4-5     *)
(* triangle), so no rounding takes place and equalities are those of real  *)
(* arithmetic.                                                             *)
(***************************************************************************)
EXTENDS Integers, Naturals, Sequences, FiniteSets, TLC

VARIABLES
    particles,  \* the list `particles`: a sequence of bodies
    pc,         \* position of the script: setup loop, main loop phases
    cand,       \* setup loop: the candidate <<x, y>> just drawn, or <<>>
    i,          \* loop index (update loop, outer collision loop)
    j,          \* inner collision loop index
    ticks,      \* pygame.time.get_ticks(), milliseconds
    last,       \* main: last
    now,        \* main: now
    dt,         \* main: dt
    running,    \* main: running
    trailed,    \* which script runs: FALSE = 3d2.py, TRUE = next.py
    frames,     \* number of completed frames
    old,        \* history: `particles` before the latest call
    log,        \* history: the calls made so far in the current frame
    gs,         \* val6.py: the GameState object gs; <<>> while a particle
                \* script runs
    hist        \* val6.py history: what happened since the last round reset

vars == <<particles, pc, cand, i, j, ticks, last, now, dt, running, trailed,
          frames, old, log, gs, hist>>

----------------------------------------------------------------------------
(* Rational arithmetic (Python float arithmetic, without rounding).        *)

Abs(n) == IF n < 0 THEN -n ELSE n

RECURSIVE GCD(_, _)
GCD(a, b) == IF b = 0 THEN a ELSE GCD(b, a % b)

\* the reduced fraction n/d, d /= 0
Norm(n, d) ==
    LET g == GCD(Abs(n), Abs(d))
        s == IF d < 0 THEN -1 ELSE 1
    IN  <<s * (n \div g), s * (d \div g)>>

Rat(n) == <<n, 1>>
Zero == Rat(0)

Neg(a) == <<-a[1], a[2]>>

Add(a, b) ==
    LET g == GCD(a[2], b[2])
    IN  Norm(a[1] * (b[2] \div g) + b[1] * (a[2] \div g), a[2] * (b[2] \div g))

Sub(a, b) == Add(a, Neg(b))

Mul(a, b) ==
    LET g1 == GCD(Abs(a[1]), b[2])
        g2 == GCD(Abs(b[1]), a[2])
    IN  IF a[1] = 0 \/ b[1] = 0 THEN Zero
        ELSE <<(a[1] \div g1) * (b[1] \div g2), (a[2] \div g2) * (b[2] \div g1)>>

\* a / b, b /= 0
Div(a, b) == Mul(a, Norm(b[2], b[1]))

Le(a, b) == a[1] * b[2] <= b[1] * a[2]
Lt(a, b) == a[1] * b[2] < b[1] * a[2]

MinR(a, b) == IF Le(a, b) THEN a ELSE b

Sq(a) == Mul(a, a)

\* floor of the square root of a natural number (Newton's iteration)
RECURSIVE Newton(_, _)
Newton(n, x) ==
    LET y == (x + n \div x) \div 2
    IN  IF y >= x THEN x ELSE Newton(n, y)

ISqrt(n) == IF n = 0 THEN 0 ELSE Newton(n, n)

\* math.hypot(dx, dy): exact whenever dx^2 + dy^2 has a rational root
Hypot(dx, dy) ==
    LET s == Add(Sq(dx), Sq(dy))
    IN  Norm(ISqrt(s[1]), ISqrt(s[2]))

----------------------------------------------------------------------------
(* Configuration of the scripts.                                           *)

WIDTH == 900
HEIGHT == 600
FPS == 120
RADIUS == 10
SPEED == 180
MARGIN == 40
TRAIL_DURATION == 2

\* the clamp of dt in main: 0.05 s
DT_MAX == <<1, 20>>

----------------------------------------------------------------------------
(* Particle (3d2.py 148-178, next.py 39-77).  A body is a record; the      *)
(* colour is presentation only and is left out.  The 3d2.py body has no    *)
(* trail: its trail field stays empty.                                     *)

Particle(x, y, vx, vy) ==
    [x |-> x, y |-> y, vx |-> vx, vy |-> vy, r |-> Rat(RADIUS), trail |-> <<>>]

\* bug: the top/bottom branches negate vx instead of vy
update_wrong_axis(self, dt_) ==
    LET x1 == Add(self.x, Mul(self.vx, dt_))
        y1 == Add(self.y, Mul(self.vy, dt_))
        left == Add(Rat(MARGIN), self.r)
        right == Sub(Sub(Rat(WIDTH), Rat(MARGIN)), self.r)
        top == Add(Rat(MARGIN), self.r)
        bottom == Sub(Sub(Rat(HEIGHT), Rat(MARGIN)), self.r)
        xs == IF Le(x1, left) THEN <<Add(left, Sub(left, x1)), Mul(self.vx, Rat(-1))>>
              ELSE IF Le(right, x1)
                   THEN <<Sub(right, Sub(x1, right)), Mul(self.vx, Rat(-1))>>
                   ELSE <<x1, self.vx>>
        ys == IF Le(y1, top) THEN <<Add(top, Sub(top, y1)), Mul(xs[2], Rat(-1))>>
              ELSE IF Le(bottom, y1)
                   THEN <<Sub(bottom, Sub(y1, bottom)), Mul(xs[2], Rat(-1))>>
                   ELSE <<y1, xs[2]>>
    IN  [self EXCEPT !.x = xs[1], !.vx = ys[2], !.y = ys[1]]

\* Particle.update with single steps changed: `mirror` reflects the overshoot
\* back inside (otherwise the coordinate is set onto the wall), `chain` joins
\* the four wall tests into one if/elif chain, `grow` is added to r
update_variant(self, dt_, mirror, chain, grow) ==
    LET x1 == Add(self.x, Mul(self.vx, dt_))
        y1 == Add(self.y, Mul(self.vy, dt_))
        left == Add(Rat(MARGIN), self.r)
        right == Sub(Sub(Rat(WIDTH), Rat(MARGIN)), self.r)
        top == Add(Rat(MARGIN), self.r)
        bottom == Sub(Sub(Rat(HEIGHT), Rat(MARGIN)), self.r)
        hitx == Le(x1, left) \/ Le(right, x1)
        xs == IF Le(x1, left)
              THEN <<IF mirror THEN Add(left, Sub(left, x1)) ELSE left,
                     Mul(self.vx, Rat(-1))>>
              ELSE IF Le(right, x1)
                   THEN <<IF mirror THEN Sub(right, Sub(x1, right)) ELSE right,
                          Mul(self.vx, Rat(-1))>>
                   ELSE <<x1, self.vx>>
        ys == IF chain /\ hitx THEN <<y1, self.vy>>
              ELSE IF Le(y1, top)
              THEN <<IF mirror THEN Add(top, Sub(top, y1)) ELSE top,
                     Mul(self.vy, Rat(-1))>>
              ELSE IF Le(bottom, y1)
                   THEN <<IF mirror THEN Sub(bottom, Sub(y1, bottom)) ELSE bottom,
                          Mul(self.vy, Rat(-1))>>
                   ELSE <<y1, self.vy>>
    IN  [self EXCEPT !.x = xs[1], !.vx = xs[2], !.y = ys[1], !.vy = ys[2],
                     !.r = Add(self.r, grow)]

\* bug: update writes the radius
update_grows(self, dt_) == update_variant(self, dt_, TRUE, FALSE, Rat(1))
\* bug: the coordinate is clamped onto the wall instead of mirrored
update_clamped(self, dt_) == update_variant(self, dt_, FALSE, FALSE, Zero)
\* bug: one if/elif chain over the four walls, a corner flips one component
update_chained(self, dt_) == update_variant(self, dt_, TRUE, TRUE, Zero)

\* 3d2.py Particle.update(self, dt)
update(self, dt_) ==
    LET x1 == Add(self.x, Mul(self.vx, dt_))
        y1 == Add(self.y, Mul(self.vy, dt_))
        left == Add(Rat(MARGIN), self.r)
        right == Sub(Sub(Rat(WIDTH), Rat(MARGIN)), self.r)
        top == Add(Rat(MARGIN), self.r)
        bottom == Sub(Sub(Rat(HEIGHT), Rat(MARGIN)), self.r)
        xs == IF Le(x1, left) THEN <<Add(left, Sub(left, x1)), Mul(self.vx, Rat(-1))>>
              ELSE IF Le(right, x1)
                   THEN <<Sub(right, Sub(x1, right)), Mul(self.vx, Rat(-1))>>
                   ELSE <<x1, self.vx>>
        ys == IF Le(y1, top) THEN <<Add(top, Sub(top, y1)), Mul(self.vy, Rat(-1))>>
              ELSE IF Le(bottom, y1)
                   THEN <<Sub(bottom, Sub(y1, bottom)), Mul(self.vy, Rat(-1))>>
                   ELSE <<y1, self.vy>>
    IN  [self EXCEPT !.x = xs[1], !.vx = xs[2], !.y = ys[1], !.vy = ys[2]]

\* bug: pop() for pop(0): the newest sample is removed, not the oldest; the
\* head stays the oldest one, so the loop runs until the trail is empty
evict_back(trail, now_) ==
    IF trail /= <<>> /\ Lt(Rat(TRAIL_DURATION), Sub(now_, Head(trail)[3]))
    THEN <<>>
    ELSE trail

\* bug: an if instead of the while: at most one old sample is popped per update
evict_once(trail, now_) ==
    IF trail /= <<>> /\ Lt(Rat(TRAIL_DURATION), Sub(now_, Head(trail)[3]))
    THEN Tail(trail)
    ELSE trail

\* next.py: while self.trail and now - self.trail[0][2] > TRAIL_DURATION: pop(0)
RECURSIVE evict(_, _)
evict(trail, now_) ==
    IF trail /= <<>> /\ Lt(Rat(TRAIL_DURATION), Sub(now_, Head(trail)[3]))
    THEN evict(Tail(trail), now_)
    ELSE trail

\* bug: the move starts from the oldest retained trail sample, not from the body
update_next_reads_trail(self, dt_, now_) ==
    LET trail1 == Append(self.trail, <<self.x, self.y, now_>>)
        trail2 == evict(trail1, now_)
        x1 == Add(Head(trail2)[1], Mul(self.vx, dt_))
        y1 == Add(Head(trail2)[2], Mul(self.vy, dt_))
        left == Add(Rat(MARGIN), self.r)
        right == Sub(Sub(Rat(WIDTH), Rat(MARGIN)), self.r)
        top == Add(Rat(MARGIN), self.r)
        bottom == Sub(Sub(Rat(HEIGHT), Rat(MARGIN)), self.r)
        xs == IF Le(x1, left) THEN <<Add(left, Sub(left, x1)), Mul(self.vx, Rat(-1))>>
              ELSE IF Le(right, x1)
                   THEN <<Sub(right, Sub(x1, right)), Mul(self.vx, Rat(-1))>>
                   ELSE <<x1, self.vx>>
        ys == IF Le(y1, top) THEN <<Add(top, Sub(top, y1)), Mul(self.vy, Rat(-1))>>
              ELSE IF Le(bottom, y1)
                   THEN <<Sub(bottom, Sub(y1, bottom)), Mul(self.vy, Rat(-1))>>
                   ELSE <<y1, self.vy>>
    IN  [self EXCEPT !.trail = trail2,
                     !.x = xs[1], !.vx = xs[2], !.y = ys[1], !.vy = ys[2]]

\* next.py Particle.update(self, dt, now)
update_next(self, dt_, now_) ==
    LET trail1 == Append(self.trail, <<self.x, self.y, now_>>)
        trail2 == evict(trail1, now_)
        x1 == Add(self.x, Mul(self.vx, dt_))
        y1 == Add(self.y, Mul(self.vy, dt_))
        left == Add(Rat(MARGIN), self.r)
        right == Sub(Sub(Rat(WIDTH), Rat(MARGIN)), self.r)
        top == Add(Rat(MARGIN), self.r)
        bottom == Sub(Sub(Rat(HEIGHT), Rat(MARGIN)), self.r)
        xs == IF Le(x1, left) THEN <<Add(left, Sub(left, x1)), Mul(self.vx, Rat(-1))>>
              ELSE IF Le(right, x1)
                   THEN <<Sub(right, Sub(x1, right)), Mul(self.vx, Rat(-1))>>
                   ELSE <<x1, self.vx>>
        ys == IF Le(y1, top) THEN <<Add(top, Sub(top, y1)), Mul(self.vy, Rat(-1))>>
              ELSE IF Le(bottom, y1)
                   THEN <<Sub(bottom, Sub(y1, bottom)), Mul(self.vy, Rat(-1))>>
                   ELSE <<y1, self.vy>>
    IN  [self EXCEPT !.trail = trail2,
                     !.x = xs[1], !.vx = xs[2], !.y = ys[1], !.vy = ys[2]]

----------------------------------------------------------------------------
(* resolve_collision(p1, p2) (3d2.py 186-219, next.py 98-123).  The Python *)
(* function mutates both bodies; the operator returns the pair <<p1, p2>>  *)
(* as the call leaves them.                                                *)

\* rel_vel of the call: (v1 - v2) . n, n = (p1 - p2) / dist; dist /= 0
rel_vel(p1, p2) ==
    LET dx == Sub(p1.x, p2.x)
        dy == Sub(p1.y, p2.y)
        dist == Hypot(dx, dy)
        nx == Div(dx, dist)
        ny == Div(dy, dist)
        dvx == Sub(p1.vx, p2.vx)
        dvy == Sub(p1.vy, p2.vy)
    IN  Add(Mul(dvx, nx), Mul(dvy, ny))

\* resolve_collision with single steps changed: `sep` keeps the early return
\* for separating pairs, `both` applies the impulse to p2 as well, `push`
\* is the divisor of the positional correction (0: no correction), `flip`
\* takes the normal from p2 to p1
resolve_variant(p1, p2, sep, both, push, flip) ==
    LET dx == IF flip THEN Sub(p2.x, p1.x) ELSE Sub(p1.x, p2.x)
        dy == IF flip THEN Sub(p2.y, p1.y) ELSE Sub(p1.y, p2.y)
        dist == Hypot(dx, dy)
    IN  IF dist = Zero THEN <<p1, p2>>
        ELSE
        LET nx == Div(dx, dist)
            ny == Div(dy, dist)
            dvx == Sub(p1.vx, p2.vx)
            dvy == Sub(p1.vy, p2.vy)
            rel == Add(Mul(dvx, nx), Mul(dvy, ny))
        IN  IF sep /\ Lt(Zero, rel) THEN <<p1, p2>>
            ELSE
            LET q1 == [p1 EXCEPT !.vx = Sub(p1.vx, Mul(rel, nx)),
                                 !.vy = Sub(p1.vy, Mul(rel, ny))]
                q2 == IF both
                      THEN [p2 EXCEPT !.vx = Add(p2.vx, Mul(rel, nx)),
                                      !.vy = Add(p2.vy, Mul(rel, ny))]
                      ELSE p2
                overlap == Sub(Add(p1.r, p2.r), dist)
            IN  IF push /= 0 /\ Lt(Zero, overlap)
                THEN <<[q1 EXCEPT !.x = Add(q1.x, Div(Mul(nx, overlap), Rat(push))),
                                  !.y = Add(q1.y, Div(Mul(ny, overlap), Rat(push)))],
                       [q2 EXCEPT !.x = Sub(q2.x, Div(Mul(nx, overlap), Rat(push))),
                                  !.y = Sub(q2.y, Div(Mul(ny, overlap), Rat(push)))]>>
                ELSE <<q1, q2>>

\* bug: the positional correction is left out
resolve_collision_nopush(p1, p2) == resolve_variant(p1, p2, TRUE, TRUE, 0, FALSE)
\* bug: each body is pushed by the whole overlap, not by half of it
resolve_collision_fullpush(p1, p2) == resolve_variant(p1, p2, TRUE, TRUE, 1, FALSE)
\* bug: each body is pushed by a quarter of the overlap, not by half of it
resolve_collision_quarterpush(p1, p2) == resolve_variant(p1, p2, TRUE, TRUE, 4, FALSE)

\* bug: the early return for separating pairs is left out
resolve_collision_nosep(p1, p2) == resolve_variant(p1, p2, FALSE, TRUE, 2, FALSE)
\* bug: the impulse is applied to p1 only
resolve_collision_onesided(p1, p2) == resolve_variant(p1, p2, TRUE, FALSE, 2, FALSE)
\* bug: the normal is taken from p2 to p1
resolve_collision_flipped(p1, p2) == resolve_variant(p1, p2, TRUE, TRUE, 2, TRUE)

\* bug: the bodies swap their whole velocities, not the components along n
resolve_collision_swap(p1, p2) ==
    LET res == resolve_variant(p1, p2, TRUE, TRUE, 2, FALSE)
    IN  IF res[1].vx = p1.vx /\ res[1].vy = p1.vy /\ res[2].vx = p2.vx /\ res[2].vy = p2.vy
        THEN res
        ELSE <<[res[1] EXCEPT !.vx = p2.vx, !.vy = p2.vy],
               [res[2] EXCEPT !.vx = p1.vx, !.vy = p1.vy]>>

\* bug: the whole overlap is taken by the first body and the second stays put
resolve_collision_lopsided(p1, p2) ==
    LET res == resolve_variant(p1, p2, TRUE, TRUE, 1, FALSE)
    IN  <<res[1], [res[2] EXCEPT !.x = p2.x, !.y = p2.y]>>

\* bug: coincident bodies are pushed apart along x instead of being skipped
resolve_collision_nudge(p1, p2) ==
    IF p1.x = p2.x /\ p1.y = p2.y
    THEN <<[p1 EXCEPT !.x = Add(p1.x, p1.r)], [p2 EXCEPT !.x = Sub(p2.x, p2.r)]>>
    ELSE resolve_variant(p1, p2, TRUE, TRUE, 2, FALSE)

\* 3d2.py resolve_collision
resolve_collision(p1, p2) ==
    LET dx == Sub(p1.x, p2.x)
        dy == Sub(p1.y, p2.y)
        dist == Hypot(dx, dy)
    IN  IF dist = Zero THEN <<p1, p2>>
        ELSE
        LET nx == Div(dx, dist)
            ny == Div(dy, dist)
            dvx == Sub(p1.vx, p2.vx)
            dvy == Sub(p1.vy, p2.vy)
            rel == Add(Mul(dvx, nx), Mul(dvy, ny))
        IN  IF Lt(Zero, rel) THEN <<p1, p2>>
            ELSE
            LET q1 == [p1 EXCEPT !.vx = Sub(p1.vx, Mul(rel, nx)),
                                 !.vy = Sub(p1.vy, Mul(rel, ny))]
                q2 == [p2 EXCEPT !.vx = Add(p2.vx, Mul(rel, nx)),
                                 !.vy = Add(p2.vy, Mul(rel, ny))]
                overlap == Sub(Add(p1.r, p2.r), dist)
            IN  IF Lt(Zero, overlap)
                THEN <<[q1 EXCEPT !.x = Add(q1.x, Div(Mul(nx, overlap), Rat(2))),
                                  !.y = Add(q1.y, Div(Mul(ny, overlap), Rat(2)))],
                       [q2 EXCEPT !.x = Sub(q2.x, Div(Mul(nx, overlap), Rat(2))),
                                  !.y = Sub(q2.y, Div(Mul(ny, overlap), Rat(2)))]>>
                ELSE <<q1, q2>>

\* next.py resolve_collision
resolve_collision_next(p1, p2) ==
    LET dx == Sub(p1.x, p2.x)
        dy == Sub(p1.y, p2.y)
        dist == Hypot(dx, dy)
    IN  IF dist = Zero THEN <<p1, p2>>
        ELSE
        LET nx == Div(dx, dist)
            ny == Div(dy, dist)
            dvx == Sub(p1.vx, p2.vx)
            dvy == Sub(p1.vy, p2.vy)
            rel == Add(Mul(dvx, nx), Mul(dvy, ny))
        IN  IF Lt(Zero, rel) THEN <<p1, p2>>
            ELSE
            LET q1 == [p1 EXCEPT !.vx = Sub(p1.vx, Mul(rel, nx)),
                                 !.vy = Sub(p1.vy, Mul(rel, ny))]
                q2 == [p2 EXCEPT !.vx = Add(p2.vx, Mul(rel, nx)),
                                 !.vy = Add(p2.vy, Mul(rel, ny))]
                overlap == Sub(Add(p1.r, p2.r), dist)
            IN  IF Lt(Zero, overlap)
                THEN <<[q1 EXCEPT !.x = Add(q1.x, Div(Mul(nx, overlap), Rat(2))),
                                  !.y = Add(q1.y, Div(Mul(ny, overlap), Rat(2)))],
                       [q2 EXCEPT !.x = Sub(q2.x, Div(Mul(nx, overlap), Rat(2))),
                                  !.y = Sub(q2.y, Div(Mul(ny, overlap), Rat(2)))]>>
                ELSE <<q1, q2>>

----------------------------------------------------------------------------
(* The scripts: setup loop (3d2.py 224-232, next.py 128-136) and main      *)
(* (3d2.py 245-283, next.py 148-186).                                      *)

\* number of bodies the model runs with (the scripts: 25 and 2)
N_PARTICLES == 3
\* frames of the main loop that are explored
MaxFrames == 2

\* values random.uniform may return for (x, y): points of the line y = 300
\* near the left wall and of the line x = 300 near the bottom wall
SamplePoints ==
    {<<c, Rat(300)>> : c \in {Rat(50), Rat(60), <<141, 2>>, Rat(91), <<223, 2>>}}
    \cup
    {<<Rat(300), c>> : c \in {Rat(550), Rat(540), <<1059, 2>>, Rat(509), <<977, 2>>}}

\* values random_unit_vec() may return: (cos theta, sin theta)
random_unit_vec ==
    {<<Rat(1), Zero>>, <<Rat(-1), Zero>>, <<Zero, Rat(1)>>, <<Zero, Rat(-1)>>}

\* the draws are kept on one line, with motion along it (see "Numbers")
SameLine(c, ps) ==
    IF ps = <<>> THEN TRUE
    ELSE IF ps[1].vy = Zero THEN c[2] = ps[1].y
    ELSE c[1] = ps[1].x

AlongLine(u, c) ==
    IF c[2] = Rat(300) THEN u[2] = Zero ELSE u[1] = Zero

\* milliseconds that may pass between two reads of pygame.time.get_ticks()
ElapsedMs == {0, 25, 70}

\* bug: the candidate is tested against the last placed body only
placement_last_only(x, y, ps) ==
    \A k \in {Len(ps)} \ {0} :
        Lt(Rat(2 * RADIUS), Hypot(Sub(x, ps[k].x), Sub(y, ps[k].y)))

\* all(math.hypot(x - p.x, y - p.y) > 2*RADIUS for p in particles)
placement_ok(x, y, ps) ==
    \A k \in 1..Len(ps) :
        Lt(Rat(2 * RADIUS), Hypot(Sub(x, ps[k].x), Sub(y, ps[k].y)))

\* x, y lie in the range of random.uniform(MARGIN+RADIUS, ...-MARGIN-RADIUS)
in_uniform_range(x, y) ==
    /\ Le(Rat(MARGIN + RADIUS), x) /\ Le(x, Rat(WIDTH - MARGIN - RADIUS))
    /\ Le(Rat(MARGIN + RADIUS), y) /\ Le(y, Rat(HEIGHT - MARGIN - RADIUS))

\* bug: dt is not clamped
frame_dt_unclamped(now_, last_) == Sub(now_, last_)

\* dt = min(0.05, now - last)
frame_dt(now_, last_) == MinR(DT_MAX, Sub(now_, last_))

\* bug: the test is strict, a pair at the contact distance is passed over
broad_check_strict(p1, p2) ==
    LET dx == Sub(p1.x, p2.x)
        dy == Sub(p1.y, p2.y)
    IN  Lt(Add(Mul(dx, dx), Mul(dy, dy)), Sq(Add(p1.r, p2.r)))

\* dx*dx + dy*dy <= (p1.r + p2.r)**2
broad_check(p1, p2) ==
    LET dx == Sub(p1.x, p2.x)
        dy == Sub(p1.y, p2.y)
    IN  Le(Add(Mul(dx, dx), Mul(dy, dy)), Sq(Add(p1.r, p2.r)))

\* which return of resolve_collision a call takes
branch(p1, p2) ==
    IF Hypot(Sub(p1.x, p2.x), Sub(p1.y, p2.y)) = Zero THEN "coincide"
    ELSE IF Lt(Zero, rel_vel(p1, p2)) THEN "separating"
    ELSE "impulse"

Init ==
    /\ particles = <<>>
    /\ pc = "setup"
    /\ cand = <<>>
    /\ i = 0
    /\ j = 0
    /\ ticks = 0
    /\ last = Zero
    /\ now = Zero
    /\ dt = Zero
    /\ running = FALSE
    /\ trailed \in BOOLEAN
    /\ frames = 0
    /\ gs = <<>>
    /\ hist = <<>>
    /\ old = <<>>
    /\ log = <<>>

\* x = random.uniform(..), y = random.uniform(..)
SetupDraw ==
    /\ pc = "setup"
    /\ \E c \in SamplePoints :
        /\ in_uniform_range(c[1], c[2])
        /\ SameLine(c, particles)
        /\ cand' = c
    /\ pc' = "test"
    /\ UNCHANGED <<gs, hist, particles, i, j, ticks, last, now, dt, running, trailed,
                   frames, old, log>>

\* the test fails: the while True loop draws again
SetupReject ==
    /\ pc = "test"
    /\ ~placement_ok(cand[1], cand[2], particles)
    /\ cand' = <<>>
    /\ pc' = "setup"
    /\ UNCHANGED <<gs, hist, particles, i, j, ticks, last, now, dt, running, trailed,
                   frames, old, log>>

\* break; vx, vy = random_unit_vec(); particles.append(Particle(..))
SetupAccept ==
    /\ pc = "test"
    /\ placement_ok(cand[1], cand[2], particles)
    /\ \E u \in random_unit_vec :
        /\ AlongLine(u, cand)
        /\ particles' = Append(particles,
               Particle(cand[1], cand[2], Mul(u[1], Rat(SPEED)), Mul(u[2], Rat(SPEED))))
    /\ cand' = <<>>
    /\ pc' = IF Len(particles) + 1 = N_PARTICLES THEN "main" ELSE "setup"
    /\ UNCHANGED <<gs, hist, i, j, ticks, last, now, dt, running, trailed, frames, old, log>>

\* main(): running = True; last = pygame.time.get_ticks()/1000.0
MainEnter ==
    /\ pc = "main"
    /\ running' = TRUE
    /\ last' = Norm(ticks, 1000)
    /\ pc' = "loop"
    /\ UNCHANGED <<gs, hist, particles, cand, i, j, ticks, now, dt, trailed, frames, old, log>>

\* top of a frame: now, dt, last, the event loop
FrameBegin ==
    /\ pc = "loop"
    /\ running
    /\ frames < MaxFrames
    /\ \E e \in ElapsedMs, quit \in BOOLEAN :
        /\ ticks' = ticks + e
        /\ now' = Norm(ticks + e, 1000)
        /\ dt' = frame_dt(Norm(ticks + e, 1000), last)
        /\ last' = Norm(ticks + e, 1000)
        /\ running' = ~quit
        /\ log' = <<[op |-> "frame", elapsed |-> Sub(Norm(ticks + e, 1000), last),
                     before |-> particles]>>
    /\ i' = 1
    /\ pc' = "update"
    /\ UNCHANGED <<gs, hist, particles, cand, j, trailed, frames, old>>

\* bug: the update loop gives each velocity a random sign
UpdateStep_jitter ==
    /\ pc = "update"
    /\ \E s \in {1, -1} :
        particles' = [particles EXCEPT
                         ![i] = IF trailed THEN update_next([@ EXCEPT !.vx = Mul(Rat(s), @)], dt, now)
                                ELSE update([@ EXCEPT !.vx = Mul(Rat(s), @)], dt)]
    /\ old' = particles
    /\ log' = Append(log, [op |-> "update", i |-> i, dt |-> dt, now |-> now])
    /\ IF i < Len(particles)
       THEN /\ i' = i + 1 /\ j' = j /\ pc' = "update"
       ELSE IF Len(particles) >= 2
            THEN /\ i' = 1 /\ j' = 2 /\ pc' = "collide"
            ELSE /\ i' = 1 /\ j' = j /\ pc' = "draw"
    /\ UNCHANGED <<gs, hist, cand, ticks, last, now, dt, running, trailed, frames>>

\* for p in particles: p.update(dt)  /  p.update(dt, now)
UpdateStep ==
    /\ pc = "update"
    /\ particles' = [particles EXCEPT
                        ![i] = IF trailed THEN update_next(@, dt, now) ELSE update(@, dt)]
    /\ old' = particles
    /\ log' = Append(log, [op |-> "update", i |-> i, dt |-> dt, now |-> now])
    /\ IF i < Len(particles)
       THEN /\ i' = i + 1 /\ j' = j /\ pc' = "update"
       ELSE IF Len(particles) >= 2
            THEN /\ i' = 1 /\ j' = 2 /\ pc' = "collide"
            ELSE /\ i' = 1 /\ j' = j /\ pc' = "draw"
    /\ UNCHANGED <<gs, hist, cand, ticks, last, now, dt, running, trailed, frames>>

\* bug: the inner loop starts at the first body (for j in range(len(..))),
\* so a pair is visited in both orders and a body is paired with itself
CollideStep_every_j ==
    /\ pc = "collide"
    /\ LET p1 == particles[i]
           p2 == particles[j]
           hit == broad_check(p1, p2)
           res == IF trailed THEN resolve_collision_next(p1, p2)
                  ELSE resolve_collision(p1, p2)
       IN  /\ particles' = IF hit
                           THEN [particles EXCEPT ![i] = res[1], ![j] = res[2]]
                           ELSE particles
           /\ log' = Append(log, [op |-> "pair", i |-> i, j |-> j, hit |-> hit,
                                   branch |-> IF hit THEN branch(p1, p2) ELSE "none",
                                   moved |-> hit /\ (res[1].x /= p1.x \/ res[1].y /= p1.y)])
    /\ old' = particles
    /\ IF j < Len(particles)
       THEN /\ i' = i /\ j' = j + 1 /\ pc' = "collide"
       ELSE IF i + 1 < Len(particles)
            THEN /\ i' = i + 1 /\ j' = 1 /\ pc' = "collide"
            ELSE /\ i' = i /\ j' = j /\ pc' = "draw"
    /\ UNCHANGED <<gs, hist, cand, ticks, last, now, dt, running, trailed, frames>>

\* one iteration of the inner collision loop: the pair (i, j)
CollideStep ==
    /\ pc = "collide"
    /\ LET p1 == particles[i]
           p2 == particles[j]
           hit == broad_check(p1, p2)
           res == IF trailed THEN resolve_collision_next(p1, p2)
                  ELSE resolve_collision(p1, p2)
       IN  /\ particles' = IF hit
                           THEN [particles EXCEPT ![i] = res[1], ![j] = res[2]]
                           ELSE particles
           /\ log' = Append(log, [op |-> "pair", i |-> i, j |-> j, hit |-> hit,
                                   branch |-> IF hit THEN branch(p1, p2) ELSE "none",
                                   moved |-> hit /\ (res[1].x /= p1.x \/ res[1].y /= p1.y)])
    /\ old' = particles
    /\ IF j < Len(particles)
       THEN /\ i' = i /\ j' = j + 1 /\ pc' = "collide"
       ELSE IF i + 1 < Len(particles)
            THEN /\ i' = i + 1 /\ j' = i + 2 /\ pc' = "collide"
            ELSE /\ i' = i /\ j' = j /\ pc' = "draw"
    /\ UNCHANGED <<gs, hist, cand, ticks, last, now, dt, running, trailed, frames>>

\* drawing reads the bodies only; pygame.display.flip(); clock.tick(FPS)
DrawTick ==
    /\ pc = "draw"
    /\ frames' = frames + 1
    /\ pc' = "loop"
    /\ UNCHANGED <<gs, hist, particles, cand, i, j, ticks, last, now, dt, running, trailed,
                   old, log>>

\* while running: is left; pygame.quit(); sys.exit()
MainExit ==
    /\ pc = "loop"
    /\ ~running
    /\ pc' = "exit"
    /\ UNCHANGED <<gs, hist, particles, cand, i, j, ticks, last, now, dt, running, trailed,
                   frames, old, log>>

Next ==
    \/ SetupDraw
    \/ SetupReject
    \/ SetupAccept
    \/ MainEnter
    \/ FrameBegin
    \/ UpdateStep
    \/ CollideStep
    \/ DrawTick
    \/ MainExit

Spec == Init /\ [][Next]_vars

----------------------------------------------------------------------------
(* resolve_collision on its own: the call is applied once to two bodies    *)
(* drawn from a small set of positions and velocities.  The second body    *)
(* sits at an offset from the first that is axis-parallel or a multiple of *)
(* a 3-4-5 triangle, so the centre distance is rational.                   *)

ResolveOffsets ==
    {<<15, 0>>, <<-15, 0>>, <<0, 15>>, <<9, 12>>, <<-12, -9>>, <<6, 8>>,
     <<12, 16>>, <<15, 20>>, <<0, 0>>}

ResolveVelocities ==
    {<<50, 0>>, <<-50, 0>>, <<0, 0>>, <<30, 40>>, <<-30, -40>>, <<0, 50>>, <<40, -30>>}

InitResolve ==
    /\ \E o \in ResolveOffsets, v1 \in ResolveVelocities, v2 \in ResolveVelocities :
        particles = <<Particle(Rat(100), Rat(100), Rat(v1[1]), Rat(v1[2])),
                      Particle(Rat(100 + o[1]), Rat(100 + o[2]), Rat(v2[1]), Rat(v2[2]))>>
    /\ pc = "call"
    /\ cand = <<>>
    /\ i = 1
    /\ j = 2
    /\ ticks = 0
    /\ last = Zero
    /\ now = Zero
    /\ dt = Zero
    /\ running = TRUE
    /\ trailed \in BOOLEAN
    /\ frames = 0
    /\ gs = <<>>
    /\ hist = <<>>
    /\ old = <<>>
    /\ log = <<>>

\* resolve_collision(particles[i], particles[j])
ResolveCall ==
    /\ pc = "call"
    /\ LET res == IF trailed THEN resolve_collision_next(particles[i], particles[j])
                  ELSE resolve_collision(particles[i], particles[j])
       IN  particles' = [particles EXCEPT ![i] = res[1], ![j] = res[2]]
    /\ old' = particles
    /\ pc' = "returned"
    /\ UNCHANGED <<gs, hist, cand, i, j, ticks, last, now, dt, running, trailed, frames, log>>

NextResolve == ResolveCall

SpecResolve == InitResolve /\ [][NextResolve]_vars

----------------------------------------------------------------------------
(* Particle.update on its own: one call on a single body drawn from        *)
(* positions at, near and beyond the four walls and the corners.           *)

UpdateXs == {Rat(49), Rat(50), Rat(52), Rat(300), Rat(848), Rat(850), Rat(851)}
UpdateYs == {Rat(49), Rat(50), Rat(53), Rat(300), Rat(547), Rat(550), Rat(551)}

UpdateVelocities ==
    {<<180, 0>>, <<-180, 0>>, <<0, 180>>, <<0, -180>>,
     <<108, 144>>, <<-108, 144>>, <<108, -144>>, <<-108, -144>>, <<0, 0>>}

UpdateDts == {Zero, <<1, 125>>, <<1, 40>>, DT_MAX}

InitUpdate ==
    /\ \E x \in UpdateXs, y \in UpdateYs, v \in UpdateVelocities :
        particles = <<Particle(x, y, Rat(v[1]), Rat(v[2]))>>
    /\ pc = "call"
    /\ cand = <<>>
    /\ i = 1
    /\ j = 0
    /\ ticks = 0
    /\ last = Zero
    /\ now = Zero
    /\ dt \in UpdateDts
    /\ running = TRUE
    /\ trailed \in BOOLEAN
    /\ frames = 0
    /\ gs = <<>>
    /\ hist = <<>>
    /\ old = <<>>
    /\ log = <<>>

\* particles[i].update(dt)  /  particles[i].update(dt, now)
UpdateCall ==
    /\ pc = "call"
    /\ particles' = [particles EXCEPT
                        ![i] = IF trailed THEN update_next(@, dt, now) ELSE update(@, dt)]
    /\ old' = particles
    /\ pc' = "returned"
    /\ UNCHANGED <<gs, hist, cand, i, j, ticks, last, now, dt, running, trailed, frames, log>>

NextUpdate == UpdateCall

SpecUpdate == InitUpdate /\ [][NextUpdate]_vars

----------------------------------------------------------------------------
(* The trail of next.py under a steady clock: one Particle.update(dt, now) *)
(* per step, FPS steps per second.                                         *)

\* steps explored: 3.0 simulated seconds at FPS steps per second
MaxTrailSteps == 360

InitTrail ==
    /\ \E x \in {Rat(52), Rat(300)}, v \in {<<180, 0>>, <<-108, 144>>} :
        particles = <<Particle(x, Rat(300), Rat(v[1]), Rat(v[2]))>>
    /\ pc = "step"
    /\ cand = <<>>
    /\ i = 1
    /\ j = 0
    /\ ticks = 0
    /\ last = Zero
    /\ now = Zero
    /\ dt = Zero
    /\ running = TRUE
    /\ trailed = TRUE
    /\ frames = 0
    /\ gs = <<>>
    /\ hist = <<>>
    /\ old = <<>>
    /\ log = <<>>

\* one step of the steady clock: now advances by 1/FPS, then p.update(dt, now)
TrailStep ==
    /\ pc = "step"
    /\ frames < MaxTrailSteps
    /\ now' = Add(now, <<1, FPS>>)
    /\ dt' = frame_dt(Add(now, <<1, FPS>>), last)
    /\ last' = Add(now, <<1, FPS>>)
    /\ particles' = [k \in 1..Len(particles) |->
                        update_next(particles[k], frame_dt(Add(now, <<1, FPS>>), last),
                                    Add(now, <<1, FPS>>))]
    /\ old' = particles
    /\ frames' = frames + 1
    /\ UNCHANGED <<gs, hist, pc, cand, i, j, ticks, running, trailed, log>>

NextTrail == TrailStep

SpecTrail == InitTrail /\ [][NextTrail]_vars

----------------------------------------------------------------------------
(* Properties.                                                             *)

Dist2(p, q) == Add(Sq(Sub(p.x, q.x)), Sq(Sub(p.y, q.y)))
RSum2(p, q) == Sq(Add(p.r, q.r))
Overlapping(p, q) == Lt(Zero, Dist2(p, q)) /\ Lt(Dist2(p, q), RSum2(p, q))
Speed2(p) == Add(Sq(p.vx), Sq(p.vy))
Pairs(ps) == {ab \in (1..Len(ps)) \X (1..Len(ps)) : ab[1] < ab[2]}

InArena(p) ==
    /\ Le(Add(Rat(MARGIN), p.r), p.x) /\ Le(p.x, Sub(Rat(WIDTH - MARGIN), p.r))
    /\ Le(Add(Rat(MARGIN), p.r), p.y) /\ Le(p.y, Sub(Rat(HEIGHT - MARGIN), p.r))

\* no body travels farther than its own diameter in a step of length dt
SmallSteps ==
    \A k \in 1..Len(particles) :
        Le(Mul(Speed2(particles[k]), Sq(dt)), Sq(Mul(Rat(2), particles[k].r)))

\* C1 (as claimed): at the end of every complete step (all updates, then the
\* whole collision pass) every body's centre lies in
\* [MARGIN + r, WIDTH - MARGIN - r] x [MARGIN + r, HEIGHT - MARGIN - r],
\* provided no body travels farther than its diameter in one step.
C1_NoEscape ==
    (pc = "draw" /\ SmallSteps) => \A k \in 1..Len(particles) : InArena(particles[k])

\* C2 (as claimed): at the end of every collision pass every pair of distinct
\* bodies has centre distance >= r_i + r_j.
C2_NoOverlapAtEndOfPass ==
    pc = "draw" =>
        \A ab \in Pairs(particles) :
            Le(RSum2(particles[ab[1]], particles[ab[2]]),
               Dist2(particles[ab[1]], particles[ab[2]]))

\* a later pair of the pass moved a body of the pair visited at log[m]
MovedLater(m) ==
    \E n \in (m + 1)..Len(log) :
        /\ log[n].op = "pair"
        /\ log[n].moved
        /\ {log[n].i, log[n].j} \cap {log[m].i, log[m].j} /= {}

\* the pair visited at log[m] got the impulse and was not disturbed afterwards
Settled(m) ==
    /\ log[m].op = "pair"
    /\ log[m].branch = "impulse"
    /\ ~MovedLater(m)

\* C2 (amended): at the end of every collision pass, every pair that the pass
\* resolved through the impulse branch (distance > 0, rel <= 0) and neither
\* of whose bodies a later pair's positional correction moved has centre
\* distance >= r_i + r_j.
C2_ResolvedPairsApart ==
    pc = "draw" =>
        \A m \in 1..Len(log) :
            Settled(m) =>
                Le(RSum2(particles[log[m].i], particles[log[m].j]),
                   Dist2(particles[log[m].i], particles[log[m].j]))

\* C2 witness: a pass ends with a pair whose overlap was corrected and that no
\* later pair disturbed.
C2_Witness ==
    /\ pc = "draw"
    /\ \E m \in 1..Len(log) : Settled(m) /\ log[m].moved

\* C3 (as claimed): for any two overlapping bodies and any relative velocity,
\* after one call to resolve_collision the centre distance equals r_i + r_j.
C3_ContactAfterResolve ==
    (pc = "returned" /\ Overlapping(old[1], old[2])) =>
        Dist2(particles[1], particles[2]) = RSum2(old[1], old[2])

\* C3 (amended): for any two overlapping bodies (0 < distance < r_i + r_j)
\* that are not separating (rel <= 0), after one call to resolve_collision the
\* centre distance equals exactly r_i + r_j.
C3_ContactWhenApproaching ==
    (/\ pc = "returned"
     /\ Overlapping(old[1], old[2])
     /\ Le(rel_vel(old[1], old[2]), Zero)) =>
        Dist2(particles[1], particles[2]) = RSum2(old[1], old[2])

\* C3 witness: the call returned for an overlapping, approaching pair whose
\* line of centres is oblique.
C3_Witness ==
    /\ pc = "returned"
    /\ Overlapping(old[1], old[2])
    /\ Lt(rel_vel(old[1], old[2]), Zero)
    /\ old[1].x /= old[2].x
    /\ old[1].y /= old[2].y

\* C4: for two overlapping bodies with rel > 0, resolve_collision leaves the
\* velocities and the positions of both bodies unchanged.
C4_SeparatingUntouched ==
    (/\ pc = "returned"
     /\ Overlapping(old[1], old[2])
     /\ Lt(Zero, rel_vel(old[1], old[2]))) =>
        particles = old

\* C4 witness: the call returned for an overlapping pair that was separating.
C4_Witness ==
    /\ pc = "returned"
    /\ Overlapping(old[1], old[2])
    /\ Lt(Zero, rel_vel(old[1], old[2]))
    /\ old[1].y /= old[2].y

Energy(ps) == Add(Speed2(ps[1]), Speed2(ps[2]))

\* v1 = -v2, both along the line of centres
HeadOn(p1, p2) ==
    /\ p1.vx = Neg(p2.vx)
    /\ p1.vy = Neg(p2.vy)
    /\ Mul(p1.vx, Sub(p1.y, p2.y)) = Mul(p1.vy, Sub(p1.x, p2.x))

\* C5: whenever resolve_collision applies the impulse (distance > 0,
\* rel <= 0), |v_1|^2 + |v_2|^2 is the same before and after the call, and
\* two bodies meeting head-on with v and -v leave with -v and v.
C5_EnergyConserved ==
    (/\ pc = "returned"
     /\ Lt(Zero, Dist2(old[1], old[2]))
     /\ Le(rel_vel(old[1], old[2]), Zero)) =>
        /\ Energy(particles) = Energy(old)
        /\ HeadOn(old[1], old[2]) =>
            /\ particles[1].vx = Neg(old[1].vx) /\ particles[1].vy = Neg(old[1].vy)
            /\ particles[2].vx = Neg(old[2].vx) /\ particles[2].vy = Neg(old[2].vy)

\* C5 witness: a head-on pair on an oblique line of centres got the impulse
\* and its velocities changed.
C5_Witness ==
    /\ pc = "returned"
    /\ Lt(Zero, Dist2(old[1], old[2]))
    /\ Lt(rel_vel(old[1], old[2]), Zero)
    /\ HeadOn(old[1], old[2])
    /\ old[1].x /= old[2].x
    /\ old[1].y /= old[2].y
    /\ particles[1].vx /= old[1].vx

C6_Before ==
    <<Particle(Rat(100), Rat(100), Rat(50), Zero),
      Particle(Rat(115), Rat(100), Rat(-50), Zero)>>

C6_After ==
    <<Particle(<<195, 2>>, Rat(100), Rat(-50), Zero),
      Particle(<<235, 2>>, Rat(100), Rat(50), Zero)>>

\* C6: bodies of radius 10 at (100,100) and (115,100) with velocities (50,0)
\* and (-50,0) leave resolve_collision with velocities (-50,0) and (50,0) at
\* (97.5,100) and (117.5,100).
C6_ConcreteScenario ==
    (pc = "returned" /\ old = C6_Before) => particles = C6_After

\* C6 witness: the call returned for the scenario's two bodies.
C6_Witness ==
    /\ pc = "returned"
    /\ old = C6_Before
    /\ particles[1].r = Rat(10)

\* the coordinate after integration is at or beyond a wall
AtWallX(p, dt_) ==
    LET x1 == Add(p.x, Mul(p.vx, dt_))
    IN  \/ Le(x1, Add(Rat(MARGIN), p.r))
        \/ Le(Sub(Rat(WIDTH - MARGIN), p.r), x1)

AtWallY(p, dt_) ==
    LET y1 == Add(p.y, Mul(p.vy, dt_))
    IN  \/ Le(y1, Add(Rat(MARGIN), p.r))
        \/ Le(Sub(Rat(HEIGHT - MARGIN), p.r), y1)

\* C7: for a single body, any velocity, any wall or corner and any dt, the
\* speed after Particle.update equals the speed before it; only the sign of
\* the reflected component(s) changes.
C7_SpeedInvariant ==
    pc = "returned" =>
        /\ Speed2(particles[1]) = Speed2(old[1])
        /\ particles[1].vx = IF AtWallX(old[1], dt) THEN Neg(old[1].vx) ELSE old[1].vx
        /\ particles[1].vy = IF AtWallY(old[1], dt) THEN Neg(old[1].vy) ELSE old[1].vy

\* C7 witness: update returned after a corner reflection of a body moving
\* obliquely: both components changed sign.
C7_Witness ==
    /\ pc = "returned"
    /\ old[1].vx /= Zero
    /\ old[1].vy /= Zero
    /\ Lt(Zero, dt)
    /\ AtWallX(old[1], dt)
    /\ AtWallY(old[1], dt)
    /\ particles[1].vx = Neg(old[1].vx)
    /\ particles[1].vy = Neg(old[1].vy)

\* C8: with one update(dt, now) per step at FPS = 120 steps per second and
\* TRAIL_DURATION = 2.0, from 3.0 simulated seconds on the oldest retained
\* sample has age <= 2.0 s and the trail holds 240 samples give or take one.
C8_TrailRetention ==
    frames >= 3 * FPS =>
        \A k \in 1..Len(particles) :
            /\ particles[k].trail /= <<>>
            /\ Le(Sub(now, Head(particles[k].trail)[3]), Rat(TRAIL_DURATION))
            /\ Len(particles[k].trail) >= TRAIL_DURATION * FPS - 1
            /\ Len(particles[k].trail) <= TRAIL_DURATION * FPS + 1

\* C8 witness: 3.0 simulated seconds have passed and samples have been evicted.
C8_Witness ==
    /\ frames = 3 * FPS
    /\ now = Rat(3)
    /\ Lt(Zero, Head(particles[1].trail)[3])

\* C9: in every frame the dt handed to every Particle.update is
\* min(0.05, now - last), hence 0 <= dt <= 0.05, and all bodies of a frame
\* receive the same dt.
C9_DtClamped ==
    \A m \in 1..Len(log) :
        log[m].op = "update" =>
            /\ log[m].dt = MinR(DT_MAX, log[1].elapsed)
            /\ Le(Zero, log[m].dt)
            /\ Le(log[m].dt, DT_MAX)

\* C9 witness: all bodies have been updated in a frame that began more than
\* 0.05 s after the previous one.
C9_Witness ==
    /\ pc = "collide"
    /\ Lt(DT_MAX, log[1].elapsed)
    /\ Len(log) = N_PARTICLES + 1
    /\ log[N_PARTICLES + 1].op = "update"

\* C10: while the setup loop runs and when it has finished, every pair of
\* placed bodies has centre distance > 2*RADIUS and every placed body lies in
\* [MARGIN+RADIUS, WIDTH-MARGIN-RADIUS] x [MARGIN+RADIUS, HEIGHT-MARGIN-RADIUS].
C10_InitialPlacement ==
    pc \in {"setup", "test", "main"} =>
        /\ \A ab \in Pairs(particles) :
               Lt(Sq(Rat(2 * RADIUS)), Dist2(particles[ab[1]], particles[ab[2]]))
        /\ \A k \in 1..Len(particles) : InArena(particles[k])

\* C10 witness: the setup loop has finished with all bodies placed.
C10_Witness ==
    /\ pc = "main"
    /\ Len(particles) = N_PARTICLES

----------------------------------------------------------------------------
(* The population of bodies (3d2.py 148-219, 245-270).                     *)

\* the script is past the setup loop
InMainLoop == pc \in {"main", "loop", "update", "collide", "draw", "exit"}

\* the indices a step of the main loop may write: update writes body i,
\* the collision loop bodies i and j, every other step none
Written ==
    IF pc = "update" THEN {i} ELSE IF pc = "collide" THEN {i, j} ELSE {}

\* C11: across any sequence of steps of the main loop the list holds
\* N_PARTICLES bodies, every body keeps its place in the list (a step writes
\* only the bodies it is applied to, at their own indices), and every radius
\* stays what it was and > 0: Particle.update and resolve_collision never
\* write r.
C11_FixedPopulation ==
    [][InMainLoop =>
        /\ Len(particles) = N_PARTICLES
        /\ Len(particles') = N_PARTICLES
        /\ \A k \in 1..N_PARTICLES :
            /\ particles'[k].r = particles[k].r
            /\ Lt(Zero, particles'[k].r)
            /\ k \notin Written => particles'[k] = particles[k]]_vars

\* C11 witness: a frame ended in which update moved every body and the
\* collision pass changed a pair.
C11_Witness ==
    /\ pc = "draw"
    /\ Len(particles) = N_PARTICLES
    /\ Lt(Zero, dt)
    /\ \E m \in 1..Len(log) : log[m].op = "pair" /\ log[m].hit /\ log[m].moved
    /\ \A k \in 1..Len(particles) : particles[k].r = Rat(RADIUS)

----------------------------------------------------------------------------
(* Particle.update: the wall reflection (3d2.py 162-178, next.py 61-77).   *)

\* the claimed outcome on one axis: coordinate c after integration,
\* velocity v, walls low and high
Mirrored(c, v, low, high) ==
    IF Le(c, low) THEN <<Sub(Mul(Rat(2), low), c), Neg(v)>>
    ELSE IF Le(high, c) THEN <<Sub(Mul(Rat(2), high), c), Neg(v)>>
    ELSE <<c, v>>

\* how far coordinate c lies beyond the wall it crossed (0: on the wall)
Overshoot(c, low, high) ==
    IF Le(c, low) THEN Sub(low, c) ELSE Sub(c, high)

\* how far coordinate c lies inside the nearer of the walls low and high
Inside(c, low, high) == MinR(Sub(c, low), Sub(high, c))

\* C15: in Particle.update, on each axis with low = arena.low + r and
\* high = arena.high - r, a coordinate c <= low after integration becomes
\* 2*low - c and a coordinate c >= high becomes 2*high - c, with that axis'
\* velocity negated; otherwise coordinate and velocity are those after
\* integration.  The tests are inclusive: a body landing exactly on a wall
\* keeps the coordinate and has its velocity negated; a body overshooting a
\* wall by D ends the step D inside that wall.
C15_MirroredReflection ==
    pc = "returned" =>
        LET p == old[1]
            q == particles[1]
            cx == Add(p.x, Mul(p.vx, dt))
            cy == Add(p.y, Mul(p.vy, dt))
            lowx == Add(Rat(MARGIN), p.r)
            highx == Sub(Rat(WIDTH - MARGIN), p.r)
            lowy == Add(Rat(MARGIN), p.r)
            highy == Sub(Rat(HEIGHT - MARGIN), p.r)
        IN  /\ <<q.x, q.vx>> = Mirrored(cx, p.vx, lowx, highx)
            /\ <<q.y, q.vy>> = Mirrored(cy, p.vy, lowy, highy)
            /\ AtWallX(p, dt) =>
                Inside(q.x, lowx, highx) = Overshoot(cx, lowx, highx)
            /\ AtWallY(p, dt) =>
                Inside(q.y, lowy, highy) = Overshoot(cy, lowy, highy)
            /\ (cx = lowx \/ cx = highx) => (q.x = cx /\ q.vx = Neg(p.vx))
            /\ (cy = lowy \/ cy = highy) => (q.y = cy /\ q.vy = Neg(p.vy))

\* C15 witness: update returned for a body that had overshot the left wall
\* by D > 0 and landed exactly on the bottom wall.
C15_Witness ==
    /\ pc = "returned"
    /\ Lt(Add(old[1].x, Mul(old[1].vx, dt)), Add(Rat(MARGIN), old[1].r))
    /\ Add(old[1].y, Mul(old[1].vy, dt)) = Sub(Rat(HEIGHT - MARGIN), old[1].r)
    /\ old[1].vy /= Zero
    /\ Lt(Add(Rat(MARGIN), particles[1].r), particles[1].x)
    /\ particles[1].vy = Neg(old[1].vy)

\* C16: in Particle.update the x outcome (new x, new vx) depends only on x,
\* vx, r and dt and the y outcome only on y, vy, r and dt: replacing the other
\* axis' coordinate and velocity by any other values leaves it unchanged.  A
\* step in which both axes reach a wall negates both velocity components, and
\* on each axis at most one of the low/high branches fires: the velocity is
\* negated exactly once when a wall is reached, and not at all otherwise.
C16_AxisIndependence ==
    pc = "returned" =>
        LET p == old[1]
            q == particles[1]
        IN  /\ \A c \in UpdateYs \cup UpdateXs, v \in UpdateVelocities :
                LET alt == IF trailed
                           THEN update_next([p EXCEPT !.y = c, !.vy = Rat(v[2])], dt, now)
                           ELSE update([p EXCEPT !.y = c, !.vy = Rat(v[2])], dt)
                IN  alt.x = q.x /\ alt.vx = q.vx
            /\ \A c \in UpdateYs \cup UpdateXs, v \in UpdateVelocities :
                LET alt == IF trailed
                           THEN update_next([p EXCEPT !.x = c, !.vx = Rat(v[1])], dt, now)
                           ELSE update([p EXCEPT !.x = c, !.vx = Rat(v[1])], dt)
                IN  alt.y = q.y /\ alt.vy = q.vy
            /\ q.vx = IF AtWallX(p, dt) THEN Neg(p.vx) ELSE p.vx
            /\ q.vy = IF AtWallY(p, dt) THEN Neg(p.vy) ELSE p.vy
            /\ (AtWallX(p, dt) /\ AtWallY(p, dt)) =>
                (q.vx = Neg(p.vx) /\ q.vy = Neg(p.vy))

\* C16 witness: update returned for a body that reached the right wall and
\* the top wall in the same step, moving obliquely.
C16_Witness ==
    /\ pc = "returned"
    /\ Le(Sub(Rat(WIDTH - MARGIN), old[1].r), Add(old[1].x, Mul(old[1].vx, dt)))
    /\ Le(Add(old[1].y, Mul(old[1].vy, dt)), Add(Rat(MARGIN), old[1].r))
    /\ Lt(Zero, old[1].vx)
    /\ Lt(old[1].vy, Zero)
    /\ particles[1].vx = Neg(old[1].vx)
    /\ particles[1].vy = Neg(old[1].vy)

----------------------------------------------------------------------------
(* The order of the calls within a frame (3d2.py 260-270, next.py 163-173). *)

\* the pairs (a, b), a < b <= n, from (a, b) on in ascending lexicographic order
RECURSIVE PairsFrom(_, _, _)
PairsFrom(a, b, n) ==
    IF a >= n THEN <<>>
    ELSE IF b > n THEN PairsFrom(a + 1, a + 2, n)
    ELSE <<<<"pair", a, b>>>> \o PairsFrom(a, b + 1, n)

\* the calls of one frame over n bodies, as claimed: Phase 1, then Phase 2
PhaseOrder(n) == [k \in 1..n |-> <<"update", k, 0>>] \o PairsFrom(1, 2, n)

\* the call recorded at log[m]
Call(m) ==
    IF log[m].op = "update" THEN <<"update", log[m].i, 0>>
    ELSE <<log[m].op, log[m].i, log[m].j>>

\* C17: in every frame all bodies are integrated and wall-reflected, in list
\* order, before any pair is tested, and the collision phase then visits each
\* pair (i, j), i < j, exactly once, in ascending lexicographic order; the
\* frame ends after that one pass.
C17_PhaseOrder ==
    log /= <<>> =>
        /\ log[1].op = "frame"
        /\ Len(log) <= 1 + Len(PhaseOrder(N_PARTICLES))
        /\ \A m \in 2..Len(log) : Call(m) = PhaseOrder(N_PARTICLES)[m - 1]
        /\ pc \in {"draw", "loop", "exit"} =>
            Len(log) = 1 + Len(PhaseOrder(N_PARTICLES))
        /\ pc = "update" => Len(log) = i
        /\ pc = "collide" => Len(log) < 1 + Len(PhaseOrder(N_PARTICLES))

\* C17 witness: a frame ended whose collision pass resolved the first and the
\* last pair of the order.
C17_Witness ==
    /\ pc = "draw"
    /\ Len(log) = 1 + Len(PhaseOrder(N_PARTICLES))
    /\ log[N_PARTICLES + 2].hit
    /\ log[Len(log)].hit
    /\ log[Len(log)].i = N_PARTICLES - 1
    /\ log[Len(log)].j = N_PARTICLES

----------------------------------------------------------------------------
(* The collision pass on its own (3d2.py 264-270, next.py 167-173): the    *)
(* nested loops are run once over three bodies drawn on the line y = 300,  *)
(* mutually overlapping, in a chain, or apart, in any index order.         *)

PassXs == {Rat(100), Rat(105), Rat(110), Rat(125)}
PassVelocities == {Rat(180), Rat(-180)}

InitPass ==
    /\ \E x1 \in PassXs, x2 \in PassXs, x3 \in PassXs,
          v1 \in PassVelocities, v2 \in PassVelocities, v3 \in PassVelocities :
        /\ particles = <<Particle(x1, Rat(300), v1, Zero),
                         Particle(x2, Rat(300), v2, Zero),
                         Particle(x3, Rat(300), v3, Zero)>>
        /\ log = <<[op |-> "pass", before |-> particles]>>
    /\ pc = "collide"
    /\ cand = <<>>
    /\ i = 1
    /\ j = 2
    /\ ticks = 0
    /\ last = Zero
    /\ now = Zero
    /\ dt = Zero
    /\ running = TRUE
    /\ trailed \in BOOLEAN
    /\ frames = 0
    /\ gs = <<>>
    /\ hist = <<>>
    /\ old = <<>>

NextPass == CollideStep

SpecPass == InitPass /\ [][NextPass]_vars

\* the pair visited at log[m] got the impulse, and overlaps at the end
Residue(m) ==
    /\ log[m].op = "pair"
    /\ log[m].branch = "impulse"
    /\ Lt(Dist2(particles[log[m].i], particles[log[m].j]),
          RSum2(particles[log[m].i], particles[log[m].j]))

\* a later visit of the pass moved exactly one body of the pair of log[m]:
\* the pair it visited holds a third body
MovedByThird(m) ==
    \E n \in (m + 1)..Len(log) :
        /\ log[n].op = "pair"
        /\ log[n].moved
        /\ Cardinality({log[n].i, log[n].j} \cap {log[m].i, log[m].j}) = 1

\* the pass visited the pair of log[m] once only
VisitedOnce(m) ==
    \A n \in 1..Len(log) :
        (log[n].op = "pair" /\ log[n].i = log[m].i /\ log[n].j = log[m].j) => n = m

----------------------------------------------------------------------------
(* The update loop on its own (3d2.py 260-262, next.py 163-165), run over  *)
(* three bodies in list order or in any other order of the indices.        *)

Phase1Xs == {Rat(52), Rat(300), Rat(848)}
Phase1Velocities == {<<180, 0>>, <<-108, 144>>}
Phase1Dts == {<<1, 40>>, DT_MAX}

\* the permutations of 1..n, as sequences
Orders(n) == {o \in [1..n -> 1..n] : \A a, b \in 1..n : o[a] = o[b] => a = b}

\* bug: update advances a clock shared by the bodies, so that the n-th call
\* of the loop integrates over n * dt
update_call_shared_clock(ps, k, n, dt_, now_, trailed_) ==
    [ps EXCEPT ![k] = IF trailed_ THEN update_next(@, Mul(Rat(n), dt_), now_)
                      ELSE update(@, Mul(Rat(n), dt_))]

\* the list after the n-th call of the loop, which is p.update(..) on body k
update_call(ps, k, n, dt_, now_, trailed_) ==
    [ps EXCEPT ![k] = IF trailed_ THEN update_next(@, dt_, now_) ELSE update(@, dt_)]

\* for p in particles: p.update(..), from the n-th body on
RECURSIVE update_loop(_, _, _, _, _)
update_loop(ps, n, dt_, now_, trailed_) ==
    IF n > Len(ps) THEN ps
    ELSE update_loop(update_call(ps, n, n, dt_, now_, trailed_), n + 1, dt_, now_, trailed_)

InitPhase1 ==
    /\ \E x1 \in Phase1Xs, x2 \in Phase1Xs, x3 \in Phase1Xs,
          v1 \in Phase1Velocities, v2 \in Phase1Velocities, v3 \in Phase1Velocities :
        particles = <<Particle(x1, Rat(300), Rat(v1[1]), Rat(v1[2])),
                      Particle(x2, Rat(300), Rat(v2[1]), Rat(v2[2])),
                      Particle(x3, Rat(300), Rat(v3[1]), Rat(v3[2]))>>
    /\ old = particles
    /\ \E o \in Orders(3) : log = <<[op |-> "order", order |-> o]>>
    /\ pc = "permuted"
    /\ cand = <<>>
    /\ i = 1
    /\ j = 0
    /\ ticks = 0
    /\ last = Zero
    /\ now = Zero
    /\ dt \in Phase1Dts
    /\ running = TRUE
    /\ trailed \in BOOLEAN
    /\ frames = 0
    /\ gs = <<>>
    /\ hist = <<>>

\* the i-th call of the loop, made on the body that the order puts i-th
Phase1Step ==
    /\ pc = "permuted"
    /\ particles' = update_call(particles, log[1].order[i], i, dt, now, trailed)
    /\ IF i < Len(particles)
       THEN /\ i' = i + 1 /\ pc' = pc
       ELSE /\ i' = i /\ pc' = "returned"
    /\ UNCHANGED <<gs, hist, cand, j, ticks, last, now, dt, running, trailed, frames, old, log>>

NextPhase1 == Phase1Step

SpecPhase1 == InitPhase1 /\ [][NextPhase1]_vars

\* C19: applying Particle.update to the bodies in any permutation of the
\* list gives every body the position and velocity (and, in next.py, the
\* trail) that the loop in list order gives it.
C19_Phase1OrderIrrelevant ==
    pc = "returned" => particles = update_loop(old, 1, dt, now, trailed)

\* C19 witness: the loop ran in an order that is not the list order, over
\* bodies of which one was reflected at a wall.
C19_Witness ==
    /\ pc = "returned"
    /\ log[1].order /= <<1, 2, 3>>
    /\ \E k \in 1..Len(particles) :
        old[k].vx /= Zero /\ particles[k].vx = Neg(old[k].vx)
    /\ particles /= old

----------------------------------------------------------------------------
(* The test that guards resolve_collision (3d2.py 264-270, 213-219).       *)

\* the velocities of p1 and p2 after the impulse along the line of centres
Impulse(p1, p2) ==
    LET dist == Hypot(Sub(p1.x, p2.x), Sub(p1.y, p2.y))
        nx == Div(Sub(p1.x, p2.x), dist)
        ny == Div(Sub(p1.y, p2.y), dist)
        rel == rel_vel(p1, p2)
    IN  <<Sub(p1.vx, Mul(rel, nx)), Sub(p1.vy, Mul(rel, ny)),
          Add(p2.vx, Mul(rel, nx)), Add(p2.vy, Mul(rel, ny))>>

\* C20: in the collision pass resolve_collision is called for the pair (i, j)
\* if and only if, with the positions the bodies have when the pair is
\* visited, the squared centre distance is <= (r_i + r_j)^2.  A pair farther
\* apart keeps its positions and velocities.  A pair at exactly the contact
\* distance is treated as colliding: when rel <= 0 the impulse is applied and
\* the positions stay as they are (the correction is zero), when rel > 0 the
\* call returns without a change.
C20_BroadCheck ==
    [][pc = "collide" =>
        LET p1 == particles[i]
            p2 == particles[j]
            q1 == particles'[i]
            q2 == particles'[j]
            rec == log'[Len(log')]
        IN  /\ rec.op = "pair" /\ rec.i = i /\ rec.j = j
            /\ rec.hit <=> Le(Dist2(p1, p2), RSum2(p1, p2))
            /\ Lt(RSum2(p1, p2), Dist2(p1, p2)) => (~rec.hit /\ particles' = particles)
            /\ Dist2(p1, p2) = RSum2(p1, p2) =>
                /\ rec.hit
                /\ q1.x = p1.x /\ q1.y = p1.y /\ q2.x = p2.x /\ q2.y = p2.y
                /\ IF Le(rel_vel(p1, p2), Zero)
                   THEN rec.branch = "impulse"
                        /\ <<q1.vx, q1.vy, q2.vx, q2.vy>> = Impulse(p1, p2)
                   ELSE rec.branch = "separating" /\ particles' = particles]_vars

\* C20 witness: the pass visited a pair at exactly the contact distance that
\* was approaching, and changed its velocities but not its positions.
C20_Witness ==
    /\ pc \in {"collide", "draw"}
    /\ log[Len(log)].op = "pair"
    /\ log[Len(log)].hit
    /\ log[Len(log)].branch = "impulse"
    /\ Dist2(old[log[Len(log)].i], old[log[Len(log)].j])
         = RSum2(old[log[Len(log)].i], old[log[Len(log)].j])
    /\ Lt(rel_vel(old[log[Len(log)].i], old[log[Len(log)].j]), Zero)
    /\ particles[log[Len(log)].i].vx /= old[log[Len(log)].i].vx
    /\ particles[log[Len(log)].i].x = old[log[Len(log)].i].x

----------------------------------------------------------------------------
(* "valorant version 3" (val6.py 787-1427): a top-down shooter.  One        *)
(* player and three bots move between four walls, shoot bullets, die,       *)
(* respawn, and are all reset when the round timer runs out.                *)
(*                                                                          *)
(* Numbers.  The script computes in floating point.  The model keeps        *)
(* lengths in halves of a pixel, velocities in halves of a pixel per       *)
(* second, hit points in halves and times in milliseconds, all integers;   *)
(* a quotient (a product with dt, a normalised vector) is rounded to the    *)
(* nearest integer.  Tests on these numbers (<, <=, ==) are exact.          *)

\* units per pixel and per hit point
U == 2

WIDTH_V3 == 1400
HEIGHT_V3 == 700
PLAYER_SPEED == 260
PLAYER_RADIUS == 14
\* BULLET_LIFETIME = 1.2, ROUND_TIME = 90 and RESPAWN_DELAY = 3, in ms
BULLET_LIFETIME == 1200
BOT_SPEED == 160
ROUND_TIME == 90000
RESPAWN_DELAY == 3000

\* a / b rounded to the nearest integer, b > 0
RDiv(a, b) == (a \div b) + (2 * (a % b) + b) \div (2 * b)

\* round(math.hypot(dx, dy))
vec_len(dx, dy) ==
    LET s == dx * dx + dy * dy
        f == ISqrt(s)
    IN  IF s - f * f > f THEN f + 1 ELSE f

\* normalize(v) scaled by `len`: the vector of length len along (dx, dy)
normalize(dx, dy, len) ==
    LET l == vec_len(dx, dy)
    IN  IF l = 0 THEN <<0, 0>> ELSE <<RDiv(dx * len, l), RDiv(dy * len, l)>>

\* clamp(n, a, b) = max(a, min(b, n))
clamp(n, a, b) ==
    LET m == IF b < n THEN b ELSE n
    IN  IF a > m THEN a ELSE m

\* pygame.Rect(x, y, w, h), in pixels
Rect(x, y, w, h) ==
    [left |-> x * U, top |-> y * U, right |-> (x + w) * U, bottom |-> (y + h) * U]

walls ==
    <<Rect(300, 120, 40, 280), Rect(600, 350, 420, 40),
      Rect(900, 70, 40, 180), Rect(120, 470, 220, 40)>>

\* pygame's Rect.collidepoint: the right and the bottom edge are outside
collidepoint(rect, p) ==
    /\ rect.left <= p[1] /\ p[1] < rect.right
    /\ rect.top <= p[2] /\ p[2] < rect.bottom

\* 0 <= n/den <= 1, den /= 0
UnitRange(n, den) ==
    IF den > 0 THEN 0 <= n /\ n <= den ELSE den <= n /\ n <= 0

\* seg_intersect(a1, a2, b1, b2)
seg_intersect(a1, a2, b1, b2) ==
    LET x1 == a1[1]  y1 == a1[2]  x2 == a2[1]  y2 == a2[2]
        x3 == b1[1]  y3 == b1[2]  x4 == b2[1]  y4 == b2[2]
        den == (y4 - y3) * (x2 - x1) - (x4 - x3) * (y2 - y1)
        ua == (x4 - x3) * (y1 - y3) - (y4 - y3) * (x1 - x3)
        ub == (x2 - x1) * (y1 - y3) - (y2 - y1) * (x1 - x3)
    IN  IF den = 0 THEN FALSE
        ELSE UnitRange(ua, den) /\ UnitRange(ub, den)

\* seg_rect_intersect(p1, p2, rect)
seg_rect_intersect(p1, p2, rect) ==
    LET rpts == <<<<rect.left, rect.top>>, <<rect.right, rect.top>>,
                  <<rect.right, rect.bottom>>, <<rect.left, rect.bottom>>>>
    IN  \/ \E e \in 1..4 : seg_intersect(p1, p2, rpts[e], rpts[(e % 4) + 1])
        \/ collidepoint(rect, p1)
        \/ collidepoint(rect, p2)

\* circle_rect_collision(circle_pos, r, rect)
circle_rect_collision(circle_pos, r, rect) ==
    LET cx == circle_pos[1]
        cy == circle_pos[2]
        dx == cx - clamp(cx, rect.left, rect.right)
        dy == cy - clamp(cy, rect.top, rect.bottom)
        abs(n) == IF n < 0 THEN -n ELSE n
    IN  IF abs(dx) >= r \/ abs(dy) >= r THEN FALSE
        ELSE dx * dx + dy * dy < r * r

\* any(circle_rect_collision(p, r, w) for w in walls)
hits_wall(p, r) == \E w \in 1..Len(walls) : circle_rect_collision(p, r, walls[w])

----------------------------------------------------------------------------
(* Game objects (val6.py 878-1052).  An entity (class Player: the player   *)
(* and the bots) and a bullet are records; a method that mutates its       *)
(* object is an operator that returns the object as the call leaves it.    *)
(* The colours, names, angle and kill feed are presentation only and are   *)
(* left out; an Ability object is the field that holds its `last`.         *)

\* Player.weapons: Vandal, Phantom, Sheriff (fire_rate and reload_time in ms)
WeaponSpecs ==
    <<[dmg |-> 38, fire_rate |-> 180, mag |-> 25, reload_time |-> 2500, bullet_speed |-> 1200],
      [dmg |-> 34, fire_rate |-> 140, mag |-> 30, reload_time |-> 2300, bullet_speed |-> 1100],
      [dmg |-> 95, fire_rate |-> 550, mag |-> 6, reload_time |-> 2000, bullet_speed |-> 1600]>>

\* Weapon.__init__ of the k-th weapon
Weapon(k) ==
    [cur_mag |-> WeaponSpecs[k].mag, last_shot |-> -999000, reloading_until |-> -1000]

\* outcomes of random.uniform(-spread_deg, spread_deg) in Weapon.shoot, as
\* <<cos, sin>> of the angle times 3601: no deviation, and 1.91 degrees to
\* either side (within the spread of every weapon)
SpreadOutcomes == {<<3601, 0>>, <<3599, 120>>, <<3599, -120>>}

\* Weapon.ready(now)
weapon_ready(w, k, now_) ==
    IF w.reloading_until > now_ THEN FALSE
    ELSE (now_ - w.last_shot) >= WeaponSpecs[k].fire_rate /\ w.cur_mag > 0

\* Bullet.__init__
Bullet(pos, vel, owner, damage, created_now) ==
    [pos |-> pos, prev_pos |-> pos, vel |-> vel, owner |-> owner,
     spawn |-> created_now, damage |-> damage]

\* Weapon.shoot(owner, target_pos, now): <<the weapon, the bullets it made>>
weapon_shoot(w, k, owner, owner_pos, target_pos, now_, spread) ==
    IF w.reloading_until > now_ THEN <<w, <<>>>>
    ELSE IF w.cur_mag <= 0 THEN <<w, <<>>>>
    ELSE
    LET base == normalize(target_pos[1] - owner_pos[1], target_pos[2] - owner_pos[2],
                          WeaponSpecs[k].bullet_speed * U)
        vel == <<RDiv(base[1] * spread[1] - base[2] * spread[2], 3601),
                 RDiv(base[2] * spread[1] + base[1] * spread[2], 3601)>>
    IN  <<[w EXCEPT !.last_shot = now_, !.cur_mag = @ - 1],
          <<Bullet(owner_pos, vel, owner, WeaponSpecs[k].dmg * U, now_)>>>>

\* bug: a running reload is started again
start_reload_restarts(w, k, now_) ==
    IF w.cur_mag = WeaponSpecs[k].mag THEN w
    ELSE [w EXCEPT !.reloading_until = now_ + WeaponSpecs[k].reload_time]

\* Weapon.start_reload(now)
start_reload(w, k, now_) ==
    IF w.cur_mag = WeaponSpecs[k].mag \/ w.reloading_until > now_ THEN w
    ELSE [w EXCEPT !.reloading_until = now_ + WeaponSpecs[k].reload_time]

\* Weapon.finish_reload_if_needed(now)
finish_reload_if_needed(w, k, now_) ==
    IF w.reloading_until > 0 /\ now_ >= w.reloading_until
    THEN [w EXCEPT !.cur_mag = WeaponSpecs[k].mag, !.reloading_until = -1000]
    ELSE w

\* Bullet.update(dt)
bullet_update(b, dt_) ==
    [b EXCEPT !.prev_pos = b.pos,
              !.pos = <<b.pos[1] + RDiv(b.vel[1] * dt_, 1000),
                        b.pos[2] + RDiv(b.vel[2] * dt_, 1000)>>]

\* Bullet.is_expired(now)
is_expired(b, now_) == now_ - b.spawn > BULLET_LIFETIME

MAX_HP == 100
MEDKITS == 3

\* Player.__init__(x, y, agent=..)
Player(x, y, agent) ==
    [pos |-> <<x * U, y * U>>, vel |-> <<0, 0>>, hp |-> MAX_HP * U, alive |-> TRUE,
     respawn_time |-> 0, kills |-> 0, deaths |-> 0, medkits |-> MEDKITS,
     dash_last |-> -999000, smoke_last |-> -999000, shield_last |-> -999000,
     shield_active_until |-> -1000, smokes |-> <<>>,
     weapons |-> [k \in 1..3 |-> Weapon(k)], cur_weapon_idx |-> 1,
     agent |-> agent, bot_last_shot |-> 0]

\* Player.respawn(); spawn is the random position drawn
respawn(self, spawn) ==
    [self EXCEPT !.hp = MAX_HP * U, !.alive = TRUE, !.pos = spawn,
                 !.shield_active_until = -1000, !.medkits = MEDKITS]

\* Player.update: self.smokes = [s for s in self.smokes if s[3] > now]
live_smokes(smokes, now_) ==
    LET live(s) == s[4] > now_ IN SelectSeq(smokes, live)

\* Player.update(dt, now, walls_list); spawn is the position respawn draws
player_update(self, dt_, now_, spawn) ==
    IF ~self.alive
    THEN IF now_ >= self.respawn_time THEN respawn(self, spawn) ELSE self
    ELSE
    LET new_x == self.pos[1] + RDiv(self.vel[1] * dt_, 1000)
        new_y == self.pos[2] + RDiv(self.vel[2] * dt_, 1000)
        x1 == IF hits_wall(<<new_x, self.pos[2]>>, PLAYER_RADIUS * U) THEN self.pos[1]
              ELSE clamp(new_x, 16 * U, (WIDTH_V3 - 16) * U)
        y1 == IF hits_wall(<<x1, new_y>>, PLAYER_RADIUS * U) THEN self.pos[2]
              ELSE clamp(new_y, 16 * U, (HEIGHT_V3 - 16) * U)
    IN  [self EXCEPT !.pos = <<x1, y1>>,
                     !.shield_active_until = IF now_ > @ THEN -1000 ELSE @,
                     !.smokes = live_smokes(@, now_),
                     !.weapons = [k \in 1..3 |-> finish_reload_if_needed(@[k], k, now_)]]

\* Player.die(now)
die(self, now_) ==
    [self EXCEPT !.alive = FALSE, !.deaths = @ + 1,
                 !.respawn_time = now_ + RESPAWN_DELAY]

\* Player.take_damage(dmg, now)
take_damage(self, dmg, now_) ==
    LET d == IF self.shield_active_until > now_ THEN RDiv(dmg * 45, 100) ELSE dmg
        hit == [self EXCEPT !.hp = @ - d]
    IN  IF hit.hp <= 0 /\ hit.alive THEN die(hit, now_) ELSE hit

\* Player.on_kill(victim, now)
on_kill(self, now_) ==
    IF self.agent = "Phoenix"
    THEN [self EXCEPT !.hp = clamp(@ + 25 * U, 0, MAX_HP * U)]
    ELSE IF self.agent = "Jett" THEN [self EXCEPT !.dash_last = -999000]
    ELSE self

\* Player.switch_weapon(idx), with the weapons numbered from 1
switch_weapon(self, idx) ==
    IF 1 <= idx /\ idx <= 3 THEN [self EXCEPT !.cur_weapon_idx = idx] ELSE self

\* bullet_hits_player(b, p)
bullet_hits_player(b, p) ==
    IF ~p.alive THEN FALSE
    ELSE LET dx == b.pos[1] - p.pos[1]
             dy == b.pos[2] - p.pos[2]
             r == PLAYER_RADIUS * U
             abs(n) == IF n < 0 THEN -n ELSE n
         IN  IF abs(dx) > r \/ abs(dy) > r THEN FALSE
             ELSE dx * dx + dy * dy <= r * r

----------------------------------------------------------------------------
(* The handlers of the main loop (val6.py 1184-1331) as operators.  The    *)
(* owner of a bullet is 0 for the player and k for gs.bots[k], which is    *)
(* also the order of `targets = [player] + gs.bots`.                       *)

Ent(g, o) == IF o = 0 THEN g.player ELSE g.bots[o]

SetEnt(g, o, e) ==
    IF o = 0 THEN [g EXCEPT !.player = e] ELSE [g EXCEPT !.bots[o] = e]

\* KEYDOWN K_h: use a medkit
key_h(player) ==
    IF player.medkits > 0 /\ player.alive
    THEN [player EXCEPT !.hp = clamp(@ + 35 * U, 0, MAX_HP * U), !.medkits = @ - 1]
    ELSE player

\* the position s eighths of the dash away from pos towards the mouse
dash_target(pos, mouse, s) ==
    LET d == normalize(mouse[1] - pos[1], mouse[2] - pos[2], (180 * U * s) \div 8)
    IN  <<pos[1] + d[1], pos[2] + d[2]>>

\* KEYDOWN K_SPACE: dash towards the mouse in 8 steps, stop before a wall
key_space(player, mouse, now_) ==
    IF now_ - player.dash_last >= 6000 /\ player.alive
    THEN LET blocked == {s \in 1..8 :
                            hits_wall(dash_target(player.pos, mouse, s), PLAYER_RADIUS * U)}
             stop == IF blocked = {} THEN 8
                     ELSE (CHOOSE s \in blocked : \A t \in blocked : s <= t) - 1
         IN  [player EXCEPT !.pos = dash_target(player.pos, mouse, stop),
                            !.dash_last = now_]
    ELSE player

\* Ability.ready(now) of an ability with the given last and cooldown (ms)
ability_ready(last_, cooldown, now_) == now_ - last_ >= cooldown

\* bug: the shield is granted whenever Q is pressed
key_q_always(player, now_) ==
    [player EXCEPT !.shield_last = now_, !.shield_active_until = now_ + 4000]

\* KEYDOWN K_q: the shield
key_q(player, now_) ==
    IF ability_ready(player.shield_last, 15000, now_)
    THEN [player EXCEPT !.shield_last = now_, !.shield_active_until = now_ + 4000]
    ELSE player

\* KEYDOWN K_e and MOUSEBUTTONDOWN 3: a smoke at the mouse position
key_e(player, mouse, now_) ==
    IF ability_ready(player.smoke_last, 12000, now_)
    THEN [player EXCEPT !.smokes = Append(@, <<mouse[1], mouse[2], 120 * U, now_ + 8000>>),
                        !.smoke_last = now_]
    ELSE player

\* the movement block: the velocity from the keys held, (kx, ky) in {-1,0,1}^2
\* (taken a thousandfold, so that rounding its length loses nothing)
movement(player, kx, ky) ==
    IF player.alive
    THEN [player EXCEPT !.vel = normalize(kx * 1000, ky * 1000, PLAYER_SPEED * U)]
    ELSE [player EXCEPT !.vel = <<0, 0>>]

\* shoot_from(shooter, target_pos, now, gs) for the entity o:
\* <<the shooter, the bullets it shot>>
shoot_from(shooter, o, target_pos, now_, spread) ==
    LET k == shooter.cur_weapon_idx
        w == shooter.weapons[k]
    IN  IF ~shooter.alive THEN <<shooter, <<>>>>
        ELSE IF w.reloading_until > now_ THEN <<shooter, <<>>>>
        ELSE IF w.cur_mag <= 0
             THEN <<[shooter EXCEPT !.weapons[k] = start_reload(w, k, now_)], <<>>>>
        ELSE IF ~weapon_ready(w, k, now_) THEN <<shooter, <<>>>>
        ELSE LET shot == weapon_shoot(w, k, o, shooter.pos, target_pos, now_, spread)
             IN  <<[shooter EXCEPT !.weapons[k] = shot[1]], shot[2]>>

\* bot_ai(bot, dt, now, gs) for gs.bots[k]: <<the bot, the bullets it shot>>
bot_ai(bot, k, target, now_, spread) ==
    IF ~bot.alive THEN <<bot, <<>>>>
    ELSE
    LET dx == target.pos[1] - bot.pos[1]
        dy == target.pos[2] - bot.pos[2]
        d2 == dx * dx + dy * dy
        vel == IF d2 > (200 * U) * (200 * U) THEN normalize(dx, dy, BOT_SPEED * U)
               ELSE IF d2 = 0 THEN <<0, 88 * U>>
               ELSE normalize(-dy, dx, 88 * U)
        moved == [bot EXCEPT !.vel = vel]
        w == bot.weapons[bot.cur_weapon_idx]
    IN  IF d2 < (520 * U) * (520 * U) /\ bot.bot_last_shot + 500 <= now_
        THEN IF w.cur_mag <= 0 /\ w.reloading_until < now_
             THEN <<[moved EXCEPT !.weapons[bot.cur_weapon_idx] =
                                      start_reload(w, bot.cur_weapon_idx, now_)], <<>>>>
             ELSE IF weapon_ready(w, bot.cur_weapon_idx, now_)
             THEN LET shot == weapon_shoot(w, bot.cur_weapon_idx, k, bot.pos,
                                           target.pos, now_, spread)
                  IN  <<[moved EXCEPT !.weapons[bot.cur_weapon_idx] = shot[1],
                                      !.bot_last_shot = now_], shot[2]>>
             ELSE <<moved, <<>>>>
        ELSE <<moved, <<>>>>

\* the first of `targets` that bullet b, not its owner's, hits; -1 if none
first_hit(g, b) ==
    LET hits == {t \in 0..Len(g.bots) : t /= b.owner /\ bullet_hits_player(b, Ent(g, t))}
    IN  IF hits = {} THEN -1 ELSE CHOOSE t \in hits : \A u \in hits : t <= u

\* bug: the wall test comes after the hit test
bullet_fate_hit_first(g, b, now_) ==
    IF is_expired(b, now_) THEN "expired"
    ELSE IF first_hit(g, b) >= 0 THEN "hit"
    ELSE IF \E w \in 1..Len(walls) : seg_rect_intersect(b.prev_pos, b.pos, walls[w])
         THEN "wall"
    ELSE "flies"

\* what the loop body does with bullet b, which Bullet.update has moved
bullet_fate(g, b, now_) ==
    IF is_expired(b, now_) THEN "expired"
    ELSE IF \E w \in 1..Len(walls) : seg_rect_intersect(b.prev_pos, b.pos, walls[w])
         THEN "wall"
    ELSE IF first_hit(g, b) >= 0 THEN "hit"
    ELSE "flies"

\* bug: the owner is credited with a kill for every hit
bullet_damage_counts_hits(g, b, now_) ==
    IF bullet_fate(g, b, now_) /= "hit" THEN g
    ELSE LET t == first_hit(g, b)
             g1 == SetEnt(g, t, take_damage(Ent(g, t), b.damage, now_))
         IN  SetEnt(g1, b.owner, on_kill([Ent(g1, b.owner) EXCEPT !.kills = @ + 1], now_))

\* the entities after the loop body for bullet b: the victim takes the
\* damage, and the owner the kill if the victim died
bullet_damage(g, b, now_) ==
    IF bullet_fate(g, b, now_) /= "hit" THEN g
    ELSE LET t == first_hit(g, b)
             g1 == SetEnt(g, t, take_damage(Ent(g, t), b.damage, now_))
         IN  IF ~Ent(g1, t).alive
             THEN SetEnt(g1, b.owner,
                         on_kill([Ent(g1, b.owner) EXCEPT !.kills = @ + 1], now_))
             ELSE g1

\* for b in gs.bullets[:]: the loop from the k-th bullet of the copy on;
\* g.bullets collects the bullets that stay, lg the record of each bullet
RECURSIVE bullets_loop(_, _, _, _, _, _)
bullets_loop(g, copy, k, lg, dt_, now_) ==
    IF k > Len(copy) THEN <<g, lg>>
    ELSE LET b == bullet_update(copy[k], dt_)
             fate == bullet_fate(g, b, now_)
             g1 == bullet_damage(g, b, now_)
             g2 == IF fate = "flies" THEN [g1 EXCEPT !.bullets = Append(@, b)] ELSE g1
             rec == [op |-> "bullet", b |-> b, fate |-> fate,
                     victim |-> IF fate = "hit" THEN first_hit(g, b) ELSE -1]
         IN  bullets_loop(g2, copy, k + 1, Append(lg, rec), dt_, now_)

\* the round reset for one entity; p is the random position drawn
reset_entity(ent, p) ==
    [ent EXCEPT !.alive = TRUE, !.respawn_time = 0, !.hp = MAX_HP * U,
                !.pos = p, !.medkits = MEDKITS]

----------------------------------------------------------------------------
(* The script: construction (val6.py 1083-1085) and the main loop (val6.py *)
(* 1184-1331), one action per block of the loop.  pc is the block the loop *)
(* is at; now, dt and ticks are in milliseconds here.  The keyboard and    *)
(* the random module are inputs; of the keys, H and the movement keys are  *)
(* pressed, the mouse button is not.                                       *)

\* frames of the main loop that are explored
MaxGameFrames == 4

\* gs.bots holds 3 bots
N_BOTS == 3

\* milliseconds clock.tick(60) may return: a frame of 50 ms, a stall of the
\* process of 0.45 s, of 3 s, of 90 s
ElapsedGame == {50, 450, 3000, 90000}

\* values of random.randint in spawn_bot, Player.respawn and the round reset
BotSpawnXs == {60}
BotSpawnYs == {350}
RespawnYs == {350}
ResetPoints == {<<700, 300>>}
\* the spread of a bot's shot: no deviation
GameSpreads == {<<3601, 0>>}
\* keys held as (right - left, down - up)
KeysHeld == {<<0, 0>>, <<1, 0>>}

particle_vars == <<particles, cand, j, last, trailed, old>>

InitGame ==
    /\ \E bots \in [1..N_BOTS -> {Player(x, y, "BotAgent") :
                                     x \in BotSpawnXs, y \in BotSpawnYs}] :
        gs = [player |-> Player(120, HEIGHT_V3 \div 2, "Phoenix"), bots |-> bots,
              bullets |-> <<>>, round_start |-> 0, round_end |-> ROUND_TIME]
    /\ hist = [heals |-> 0, resets |-> 0]
    /\ pc = "tick"
    /\ ticks = 0
    /\ now = 0
    /\ dt = 0
    /\ running = TRUE
    /\ frames = 0
    /\ i = 0
    /\ log = <<>>
    /\ particles = <<>>
    /\ cand = <<>>
    /\ j = 0
    /\ last = Zero
    /\ trailed = FALSE
    /\ old = <<>>

\* dt = clock.tick(60)/1000.0; now = now_time()
GameTick ==
    /\ pc = "tick"
    /\ running
    /\ frames < MaxGameFrames
    /\ \E e \in ElapsedGame :
        /\ ticks' = ticks + e
        /\ dt' = e
        /\ now' = ticks + e
    /\ log' = <<>>
    /\ pc' = "events"
    /\ UNCHANGED <<gs, hist, running, frames, i, particle_vars>>

\* an event of the queue: KEYDOWN K_h
KeyH ==
    /\ pc = "events"
    /\ gs' = [gs EXCEPT !.player = key_h(@)]
    /\ hist' = IF key_h(gs.player) /= gs.player
               THEN [hist EXCEPT !.heals = @ + 1] ELSE hist
    /\ UNCHANGED <<log, pc, ticks, dt, now, running, frames, i, particle_vars>>

\* the event queue is empty: the movement block, then player.update(..)
PlayerStep ==
    /\ pc = "events"
    /\ \E k \in KeysHeld, y \in RespawnYs, x \in {80, WIDTH_V3 - 80} :
        gs' = [gs EXCEPT !.player =
                  player_update(movement(@, k[1], k[2]), dt, now, <<x * U, y * U>>)]
    /\ i' = 1
    /\ pc' = "bots"
    /\ UNCHANGED <<hist, log, ticks, dt, now, running, frames, particle_vars>>

\* for b in gs.bots: bot_ai(b, dt, now, gs); b.update(dt, now, walls)
BotStep ==
    /\ pc = "bots"
    /\ \E s \in GameSpreads, y \in RespawnYs, x \in {80, WIDTH_V3 - 80} :
        LET ai == bot_ai(gs.bots[i], i, gs.player, now, s)
        IN  gs' = [gs EXCEPT !.bots[i] = player_update(ai[1], dt, now, <<x * U, y * U>>),
                             !.bullets = @ \o ai[2]]
    /\ IF i < Len(gs.bots)
       THEN /\ i' = i + 1 /\ pc' = pc
       ELSE /\ i' = i /\ pc' = "bullets"
    /\ UNCHANGED <<hist, log, ticks, dt, now, running, frames, particle_vars>>

\* for b in gs.bullets[:]: move, lifetime, walls, targets
BulletsStep ==
    /\ pc = "bullets"
    /\ LET res == bullets_loop([gs EXCEPT !.bullets = <<>>], gs.bullets, 1, log, dt, now)
       IN  gs' = res[1] /\ log' = res[2]
    /\ pc' = "timer"
    /\ UNCHANGED <<hist, ticks, dt, now, running, frames, i, particle_vars>>

\* the round timer has run out: every entity is reset, the bullets cleared
RoundReset ==
    /\ pc = "timer"
    /\ now >= gs.round_end
    /\ \E p0 \in ResetPoints, ps \in [1..Len(gs.bots) -> ResetPoints] :
        gs' = [gs EXCEPT
                  !.player = reset_entity(@, <<p0[1] * U, p0[2] * U>>),
                  !.bots = [k \in 1..Len(gs.bots) |->
                               reset_entity(gs.bots[k], <<ps[k][1] * U, ps[k][2] * U>>)],
                  !.bullets = <<>>,
                  !.round_start = now,
                  !.round_end = now + ROUND_TIME]
    /\ hist' = [heals |-> 0, resets |-> hist.resets + 1]
    /\ frames' = frames + 1
    /\ pc' = "tick"
    /\ UNCHANGED <<log, ticks, dt, now, running, i, particle_vars>>

\* the round goes on; drawing reads the state only
FrameEnd ==
    /\ pc = "timer"
    /\ now < gs.round_end
    /\ frames' = frames + 1
    /\ pc' = "tick"
    /\ UNCHANGED <<gs, hist, log, ticks, dt, now, running, i, particle_vars>>

NextGame ==
    \/ GameTick
    \/ KeyH
    \/ PlayerStep
    \/ BotStep
    \/ BulletsStep
    \/ RoundReset
    \/ FrameEnd

SpecGame == InitGame /\ [][NextGame]_vars

----------------------------------------------------------------------------
\* C12: between two round resets the player uses at most 3 medkits (H
\* pressed while alive with medkits > 0; hist.heals counts these uses since
\* the last reset), and medkits stays in 0..3.
C12_MedkitLimit ==
    /\ hist.heals <= MEDKITS
    /\ gs.player.medkits \in 0..MEDKITS

----------------------------------------------------------------------------
(* Geometry for the claims, independent of the script's helpers: whether   *)
(* the closed segment p1-p2 and the closed rectangle have a common point.  *)
(* Two convex sets in the plane are disjoint exactly if an axis separates  *)
(* them: here the x axis, the y axis or the normal of the segment.         *)

Min2(a, b) == IF a < b THEN a ELSE b
Max2(a, b) == IF a > b THEN a ELSE b

\* the side of the line p1-p2 that the point (x, y) is on: > 0, < 0 or = 0
Side(p1, p2, x, y) == (p2[1] - p1[1]) * (y - p1[2]) - (p2[2] - p1[2]) * (x - p1[1])

SegmentMeetsRect(p1, p2, rect) ==
    LET corners == {<<rect.left, rect.top>>, <<rect.right, rect.top>>,
                    <<rect.right, rect.bottom>>, <<rect.left, rect.bottom>>}
    IN  /\ Max2(p1[1], p2[1]) >= rect.left /\ Min2(p1[1], p2[1]) <= rect.right
        /\ Max2(p1[2], p2[2]) >= rect.top /\ Min2(p1[2], p2[2]) <= rect.bottom
        /\ ~ \A c \in corners : Side(p1, p2, c[1], c[2]) > 0
        /\ ~ \A c \in corners : Side(p1, p2, c[1], c[2]) < 0

----------------------------------------------------------------------------
(* Movement of one entity (val6.py 992-1032, 1204-1227, 1259-1273,         *)
(* 1320-1331): the handlers that assign an entity's position, applied in   *)
(* any order to the player as constructed.  gs.player is the entity, old   *)
(* the entity before the last handler, log the handler applied last.       *)

\* handler applications that are explored
MaxMoveSteps == 3

\* dt of a frame in milliseconds: a usual frame, stalls of the process
MoveDts == {16, 500, 3000}
\* keys held as (right - left, down - up)
MoveKeys == {<<1, 0>>, <<-1, 0>>, <<0, 1>>, <<1, -1>>}
\* positions of the mouse at a dash
MousePoints == {<<700, 350>>, <<120, 600>>}
\* values of [choice([80, WIDTH-80]), randint(80, HEIGHT-80)] in respawn
RespawnPoints == {<<80, 350>>, <<WIDTH_V3 - 80, 120>>}
\* values of [randint(80, WIDTH-80), randint(80, HEIGHT-80)] in the reset
ResetSamples == {<<700, 300>>, <<320, 200>>, <<200, 440>>}

Units(p) == <<p[1] * U, p[2] * U>>

InitMove ==
    /\ gs = [player |-> Player(120, HEIGHT_V3 \div 2, "Phoenix")]
    /\ hist = <<>>
    /\ old = Player(120, HEIGHT_V3 \div 2, "Phoenix")
    /\ log = <<[op |-> "init"]>>
    /\ pc = "move"
    /\ ticks = 0
    /\ now = 0
    /\ dt = 0
    /\ running = TRUE
    /\ frames = 0
    /\ i = 0
    /\ particles = <<>>
    /\ cand = <<>>
    /\ j = 0
    /\ last = Zero
    /\ trailed = FALSE

\* a frame: the movement block, then player.update(dt, now, walls)
MoveUpdate ==
    /\ pc = "move"
    /\ frames < MaxMoveSteps
    /\ \E e \in MoveDts, k \in MoveKeys, s \in RespawnPoints :
        /\ dt' = e
        /\ now' = now + e
        /\ ticks' = ticks + e
        /\ gs' = [gs EXCEPT !.player =
                     player_update(movement(@, k[1], k[2]), e, now + e, Units(s))]
    /\ old' = gs.player
    /\ log' = <<[op |-> IF gs.player.alive THEN "update" ELSE "dead"]>>
    /\ frames' = frames + 1
    /\ UNCHANGED <<hist, pc, running, i, particles, cand, j, last, trailed>>

\* KEYDOWN K_SPACE
MoveDash ==
    /\ pc = "move"
    /\ frames < MaxMoveSteps
    /\ \E m \in MousePoints :
        gs' = [gs EXCEPT !.player = key_space(@, Units(m), now)]
    /\ old' = gs.player
    /\ log' = <<[op |-> "dash"]>>
    /\ frames' = frames + 1
    /\ UNCHANGED <<hist, pc, ticks, now, dt, running, i, particles, cand, j, last,
                   trailed>>

\* a bullet takes the entity's last hit points
MoveDie ==
    /\ pc = "move"
    /\ frames < MaxMoveSteps
    /\ gs.player.alive
    /\ gs' = [gs EXCEPT !.player = take_damage(@, @.hp, now)]
    /\ old' = gs.player
    /\ log' = <<[op |-> "die"]>>
    /\ frames' = frames + 1
    /\ UNCHANGED <<hist, pc, ticks, now, dt, running, i, particles, cand, j, last,
                   trailed>>

\* the round timer has run out
MoveReset ==
    /\ pc = "move"
    /\ frames < MaxMoveSteps
    /\ \E p \in ResetSamples :
        gs' = [gs EXCEPT !.player = reset_entity(@, Units(p))]
    /\ old' = gs.player
    /\ log' = <<[op |-> "reset"]>>
    /\ frames' = frames + 1
    /\ UNCHANGED <<hist, pc, ticks, now, dt, running, i, particles, cand, j, last,
                   trailed>>

NextMove ==
    \/ MoveUpdate
    \/ MoveDash
    \/ MoveDie
    \/ MoveReset

SpecMove == InitMove /\ [][NextMove]_vars

\* C13: after any sequence of update, dash, respawn and round reset an
\* alive entity's circle of radius PLAYER_RADIUS overlaps no wall, and no
\* update or dash moves the entity's centre along a segment that meets a wall.
C13_NoWallCrossing ==
    /\ gs.player.alive => ~hits_wall(gs.player.pos, PLAYER_RADIUS * U)
    /\ log[1].op \in {"update", "dash"} =>
          \A w \in 1..Len(walls) : ~SegmentMeetsRect(old.pos, gs.player.pos, walls[w])

----------------------------------------------------------------------------
(* Bullets and walls (val6.py 1286-1318 with 848-867 and 1117-1130; the    *)
(* loop and the helpers of version 2, val6.py 627-645 and 215-245, are the *)
(* same code).  The entities stand where a round reset has put them; in    *)
(* each frame the player may shoot at the mouse and bot 1 at the player,   *)
(* then the bullet loop runs.  log holds the loop's record of each bullet  *)
(* of the frame: the bullet after Bullet.update, its fate, its victim.     *)

\* frames that are explored
MaxBulletFrames == 2

\* dt of a frame in milliseconds
BulletDts == {16, 50, 1500}
\* where the round reset has put the player, and bot 1
PlayerPoints == {<<700, 390>>, <<354, 200>>, <<960, 450>>, <<700, 290>>}
BotPoints == {<<286, 200>>, <<414, 200>>}
\* positions of the mouse when the player shoots
MouseTargets == {<<900, 390>>, <<960, 300>>, <<700, 400>>}

InitBullet ==
    /\ \E p \in PlayerPoints, q \in BotPoints :
        gs = [player |-> Player(p[1], p[2], "Phoenix"),
              bots |-> [k \in 1..N_BOTS |->
                           IF k = 1 THEN Player(q[1], q[2], "BotAgent")
                           ELSE Player(WIDTH_V3 - 60, 60, "BotAgent")],
              bullets |-> <<>>, round_start |-> 0, round_end |-> ROUND_TIME]
    /\ hist = <<>>
    /\ log = <<>>
    /\ pc = "tick"
    /\ ticks = 0
    /\ now = 0
    /\ dt = 0
    /\ running = TRUE
    /\ frames = 0
    /\ i = 0
    /\ particles = <<>>
    /\ cand = <<>>
    /\ j = 0
    /\ last = Zero
    /\ trailed = FALSE
    /\ old = <<>>

\* dt = clock.tick(60)/1000.0; now = now_time()
BulletTick ==
    /\ pc = "tick"
    /\ frames < MaxBulletFrames
    /\ \E e \in BulletDts :
        /\ ticks' = ticks + e
        /\ dt' = e
        /\ now' = ticks + e
    /\ log' = <<>>
    /\ pc' = "player"
    /\ UNCHANGED <<gs, hist, running, frames, i, particle_vars>>

\* if mouse_down: handle_player_shoot(pygame.mouse.get_pos(), now, gs)
PlayerShoots ==
    /\ pc = "player"
    /\ \E m \in MouseTargets, s \in SpreadOutcomes :
        LET shot == shoot_from(gs.player, 0, Units(m), now, s)
        IN  gs' = [gs EXCEPT !.player = shot[1], !.bullets = @ \o shot[2]]
    /\ pc' = "bots"
    /\ UNCHANGED <<hist, log, ticks, now, dt, running, frames, i, particle_vars>>

\* the mouse button is up
PlayerHolds ==
    /\ pc = "player"
    /\ pc' = "bots"
    /\ UNCHANGED <<gs, hist, log, ticks, now, dt, running, frames, i, particle_vars>>

\* bot 1 shoots at the player (as bot_ai does when its timer allows)
BotShoots ==
    /\ pc = "bots"
    /\ \E s \in GameSpreads :
        LET shot == shoot_from(gs.bots[1], 1, gs.player.pos, now, s)
        IN  gs' = [gs EXCEPT !.bots[1] = shot[1], !.bullets = @ \o shot[2]]
    /\ pc' = "bullets"
    /\ UNCHANGED <<hist, log, ticks, now, dt, running, frames, i, particle_vars>>

\* bot 1's timer does not allow a shot
BotHolds ==
    /\ pc = "bots"
    /\ pc' = "bullets"
    /\ UNCHANGED <<gs, hist, log, ticks, now, dt, running, frames, i, particle_vars>>

\* for b in gs.bullets[:]: move, lifetime, walls, targets
BulletLoop ==
    /\ pc = "bullets"
    /\ LET res == bullets_loop([gs EXCEPT !.bullets = <<>>], gs.bullets, 1, <<>>, dt, now)
       IN  gs' = res[1] /\ log' = res[2]
    /\ old' = gs
    /\ frames' = frames + 1
    /\ pc' = "tick"
    /\ UNCHANGED <<hist, ticks, now, dt, running, i, particles, cand, j, last, trailed>>

NextBullet ==
    \/ BulletTick
    \/ PlayerShoots
    \/ PlayerHolds
    \/ BotShoots
    \/ BotHolds
    \/ BulletLoop

SpecBullet == InitBullet /\ [][NextBullet]_vars

\* the movement segment of bullet b has a point in common with a wall
MeetsWall(b) == \E w \in 1..Len(walls) : SegmentMeetsRect(b.prev_pos, b.pos, walls[w])

\* the same, but not by lying on the line of that wall's right or bottom edge
AlongEdge(b, rect) ==
    \/ b.prev_pos[1] = rect.right /\ b.pos[1] = rect.right
    \/ b.prev_pos[2] = rect.bottom /\ b.pos[2] = rect.bottom

MeetsWallProperly(b) ==
    \E w \in 1..Len(walls) :
        SegmentMeetsRect(b.prev_pos, b.pos, walls[w]) /\ ~AlongEdge(b, walls[w])

\* the loop removed the bullet of record m before the hit test: nobody is
\* damaged by it and it is not in the list after the frame
RemovedUnhit(m) ==
    /\ log[m].fate \in {"expired", "wall"}
    /\ log[m].victim = -1
    /\ \A k \in 1..Len(gs.bullets) : gs.bullets[k] /= log[m].b

----------------------------------------------------------------------------
(* The impulse of resolve_collision (3d2.py 186-211, next.py 98-115).      *)

\* the component of p's velocity along the line of centres of a and b, and
\* across it, each times the centre distance
Along(p, a, b) == Add(Mul(p.vx, Sub(a.x, b.x)), Mul(p.vy, Sub(a.y, b.y)))
Across(p, a, b) == Sub(Mul(p.vx, Sub(a.y, b.y)), Mul(p.vy, Sub(a.x, b.x)))

\* rel * n for the call on a and b, as <<x, y>>; the distance is not 0
RelN(a, b) ==
    LET dist == Hypot(Sub(a.x, b.x), Sub(a.y, b.y))
    IN  <<Mul(rel_vel(a, b), Div(Sub(a.x, b.x), dist)),
          Mul(rel_vel(a, b), Div(Sub(a.y, b.y), dist))>>

\* C21: for a pair with distance > 0 and rel <= 0, resolve_collision sets
\* v_1' = v_1 - rel*n and v_2' = v_2 + rel*n: the bodies exchange their
\* velocity components along n, and each keeps its component across n.
C21_Impulse ==
    (/\ pc = "returned"
     /\ Lt(Zero, Dist2(old[1], old[2]))
     /\ Le(rel_vel(old[1], old[2]), Zero)) =>
        /\ particles[1].vx = Sub(old[1].vx, RelN(old[1], old[2])[1])
        /\ particles[1].vy = Sub(old[1].vy, RelN(old[1], old[2])[2])
        /\ particles[2].vx = Add(old[2].vx, RelN(old[1], old[2])[1])
        /\ particles[2].vy = Add(old[2].vy, RelN(old[1], old[2])[2])
        /\ Along(particles[1], old[1], old[2]) = Along(old[2], old[1], old[2])
        /\ Along(particles[2], old[1], old[2]) = Along(old[1], old[1], old[2])
        /\ Across(particles[1], old[1], old[2]) = Across(old[1], old[1], old[2])
        /\ Across(particles[2], old[1], old[2]) = Across(old[2], old[1], old[2])

\* C21 witness: the impulse was applied to a pair on an oblique line of
\* centres whose velocities differ along and across that line.
C21_Witness ==
    /\ pc = "returned"
    /\ Lt(Zero, Dist2(old[1], old[2]))
    /\ Lt(rel_vel(old[1], old[2]), Zero)
    /\ old[1].x /= old[2].x
    /\ old[1].y /= old[2].y
    /\ Across(old[1], old[1], old[2]) /= Across(old[2], old[1], old[2])
    /\ Across(old[1], old[1], old[2]) /= Zero
    /\ particles[1].vx /= old[1].vx

----------------------------------------------------------------------------
(* Coincident centres (3d2.py 186-193, next.py 98-103).                    *)

\* the visit of record m found the centres of its pair coinciding
Coincident(m) == log[m].op = "pair" /\ log[m].branch = "coincide"

\* C22: when the centres of a pair coincide, the visit of the pair changes
\* no body (no position, no velocity), and at the end of the pass the pair
\* overlaps.
C22_CoincidentSkipped ==
    /\ (Len(log) >= 2 /\ Coincident(Len(log))) => particles = old
    /\ pc = "draw" =>
          \A m \in 1..Len(log) :
              Coincident(m) => Lt(Dist2(particles[log[m].i], particles[log[m].j]),
                                  RSum2(particles[log[m].i], particles[log[m].j]))

\* C22 witness: the pass ended after it had skipped a coincident pair and
\* resolved another pair that moved one of the two bodies.
C22_Witness ==
    /\ pc = "draw"
    /\ \E m \in 1..Len(log) :
          /\ Coincident(m)
          /\ particles[log[m].i].x /= particles[log[m].j].x

----------------------------------------------------------------------------
(* The frame as a function (3d2.py 260-270, next.py 163-173): what a run   *)
(* of the two loops makes of a list of bodies, given dt and now only.      *)

\* the nested collision loops from the pair (a, b) on
RECURSIVE collide_loop(_, _, _, _)
collide_loop(ps, a, b, trailed_) ==
    IF a >= Len(ps) THEN ps
    ELSE IF b > Len(ps) THEN collide_loop(ps, a + 1, a + 2, trailed_)
    ELSE LET res == IF trailed_ THEN resolve_collision_next(ps[a], ps[b])
                    ELSE resolve_collision(ps[a], ps[b])
         IN  collide_loop(IF broad_check(ps[a], ps[b])
                          THEN [ps EXCEPT ![a] = res[1], ![b] = res[2]]
                          ELSE ps,
                          a, b + 1, trailed_)

\* one frame: the update loop, then the collision loops
step(ps, dt_, now_, trailed_) ==
    collide_loop(update_loop(ps, 1, dt_, now_, trailed_), 1, 2, trailed_)

\* C23: the bodies (positions, velocities, trails) at the end of a frame are
\* a function of the bodies at its start, of dt and, in next.py, of now: of
\* nothing else in the state, and of no random draw.  Two runs that agree on
\* these therefore agree after every frame.
C23_Deterministic ==
    pc = "draw" =>
        particles = step(log[1].before, dt, IF trailed THEN now ELSE Zero, trailed)

\* C23 witness: a frame after the first ended in which a body was reflected
\* or moved and a pair got the impulse.
C23_Witness ==
    /\ pc = "draw"
    /\ frames >= 1
    /\ particles /= log[1].before
    /\ \E m \in 1..Len(log) : log[m].op = "pair" /\ log[m].branch = "impulse"

\* ---------------------------------------------------------------------------
\* Trail independence
\* ---------------------------------------------------------------------------

\* the bodies without their trails: what 3d2.py keeps of a body
Plain(ps) == [k \in 1..Len(ps) |-> [ps[k] EXCEPT !.trail = <<>>]]

\* C24: the trail is written but never read by the physics: every frame of the
\* trailed script (next.py) leaves the bodies with exactly the positions and
\* velocities that one frame of the plain script (3d2.py) gives when started
\* from the same positions and velocities with the same dt.
C24_TrailIndependent ==
    (pc = "draw" /\ trailed) =>
        Plain(particles) = step(Plain(log[1].before), dt, Zero, FALSE)

\* C24 witness: a frame of the trailed script ended in which bodies moved, a
\* pair exchanged an impulse and a body carries two trail samples.
C24_Witness ==
    /\ pc = "draw" /\ trailed /\ Plain(particles) /= Plain(log[1].before)
    /\ \E m \in 1..Len(log) : log[m].op = "pair" /\ log[m].branch = "impulse"
    /\ \E k \in 1..Len(particles) : Len(particles[k].trail) >= 2

\* ---------------------------------------------------------------------------
\* Trail invariant under an irregular, non-decreasing clock
\* ---------------------------------------------------------------------------

MaxClockSteps == 5

\* advances of the clock between two updates, in seconds: none, one frame,
\* a stall shorter than the trail and a stall longer than the trail
ClockAdvances == {Zero, <<1, FPS>>, Rat(1), <<5, 2>>}

InitClock ==
    /\ \E x \in {Rat(52), Rat(300)}, v \in {<<180, 0>>, <<-108, 144>>} :
        particles = <<Particle(x, Rat(300), Rat(v[1]), Rat(v[2]))>>
    /\ pc = "step"
    /\ cand = <<>>
    /\ i = 1
    /\ j = 0
    /\ ticks = 0
    /\ last = Zero
    /\ now = Zero
    /\ dt = Zero
    /\ running = TRUE
    /\ trailed = TRUE
    /\ frames = 0
    /\ gs = <<>>
    /\ hist = <<>>
    /\ old = <<>>
    /\ log = <<>>

\* now = pygame.time.get_ticks() / 1000.0; dt = min(0.05, now - last); p.update(dt, now)
ClockStep ==
    /\ pc = "step"
    /\ frames < MaxClockSteps
    /\ \E e \in ClockAdvances :
        /\ now' = Add(now, e)
        /\ dt' = frame_dt(Add(now, e), last)
        /\ last' = Add(now, e)
        /\ particles' = [k \in 1..Len(particles) |->
                            update_next(particles[k], frame_dt(Add(now, e), last), Add(now, e))]
    /\ old' = particles
    /\ frames' = frames + 1
    /\ UNCHANGED <<gs, hist, pc, cand, i, j, ticks, running, trailed, log>>

NextClock == ClockStep

SpecClock == InitClock /\ [][NextClock]_vars

\* t is s with some samples removed from its front only
IsSuffix(t, s) ==
    /\ Len(t) <= Len(s)
    /\ t = SubSeq(s, Len(s) - Len(t) + 1, Len(s))

\* C25: with a non-decreasing clock, after every update the trail is
\* non-empty, its timestamps are non-decreasing, its newest sample is stamped
\* now and holds the position the body had before the move, every retained
\* sample has age now - t <= TRAIL_DURATION, and the trail is the old trail
\* plus the new sample with samples removed from the front only.
C25_TrailInvariant ==
    frames >= 1 =>
        \A k \in 1..Len(particles) :
            LET tr == particles[k].trail
            IN  /\ tr /= <<>>
                /\ \A m \in 1..(Len(tr) - 1) : Le(tr[m][3], tr[m + 1][3])
                /\ tr[Len(tr)] = <<old[k].x, old[k].y, now>>
                /\ \A m \in 1..Len(tr) : Le(Sub(now, tr[m][3]), Rat(TRAIL_DURATION))
                /\ IsSuffix(tr, Append(old[k].trail, <<old[k].x, old[k].y, now>>))

\* C25 witness: an update after a stall evicted two or more samples at once
\* and kept two or more, and the body had moved since its previous sample.
C25_Witness ==
    /\ frames >= 3
    /\ Len(particles[1].trail) >= 2
    /\ Len(particles[1].trail) < Len(old[1].trail)
    /\ particles[1].trail[Len(particles[1].trail)][1] /= particles[1].trail[Len(particles[1].trail) - 1][1]

\* ---------------------------------------------------------------------------
\* Momentum and centroid conservation of resolve_collision
\* ---------------------------------------------------------------------------

\* n * overlap / 2 for the call on a and b, as <<x, y>>; the distance is not 0
HalfOverlapN(a, b) ==
    LET dist == Hypot(Sub(a.x, b.x), Sub(a.y, b.y))
        overlap == Sub(Add(a.r, b.r), dist)
    IN  <<Div(Mul(Div(Sub(a.x, b.x), dist), overlap), Rat(2)),
          Div(Mul(Div(Sub(a.y, b.y), dist), overlap), Rat(2))>>

\* C26: every call of resolve_collision, whichever branch it takes, leaves
\* the velocity sum v_1 + v_2 and the position sum p_1 + p_2 (hence the
\* midpoint) unchanged, and when it corrects the positions it moves body 1 by
\* +n*overlap/2 and body 2 by -n*overlap/2.
C26_Conserved ==
    pc = "returned" =>
        /\ Add(particles[1].vx, particles[2].vx) = Add(old[1].vx, old[2].vx)
        /\ Add(particles[1].vy, particles[2].vy) = Add(old[1].vy, old[2].vy)
        /\ Add(particles[1].x, particles[2].x) = Add(old[1].x, old[2].x)
        /\ Add(particles[1].y, particles[2].y) = Add(old[1].y, old[2].y)
        /\ (particles[1].x /= old[1].x \/ particles[1].y /= old[1].y) =>
            /\ particles[1].x = Add(old[1].x, HalfOverlapN(old[1], old[2])[1])
            /\ particles[1].y = Add(old[1].y, HalfOverlapN(old[1], old[2])[2])
            /\ particles[2].x = Sub(old[2].x, HalfOverlapN(old[1], old[2])[1])
            /\ particles[2].y = Sub(old[2].y, HalfOverlapN(old[1], old[2])[2])

\* C26 witness: a call changed both velocities and moved both bodies along an
\* oblique line of centres.
C26_Witness ==
    /\ pc = "returned"
    /\ particles[1].vx /= old[1].vx /\ particles[2].vy /= old[2].vy
    /\ particles[1].x /= old[1].x /\ particles[2].y /= old[2].y

\* ---------------------------------------------------------------------------
\* Direction of a wall reflection
\* ---------------------------------------------------------------------------

\* the wall tests of update on body b: which branch each axis takes
WallX(b, dt_) ==
    LET x1 == Add(b.x, Mul(b.vx, dt_))
    IN  IF Le(x1, Add(Rat(MARGIN), b.r)) THEN "left"
        ELSE IF Le(Sub(Sub(Rat(WIDTH), Rat(MARGIN)), b.r), x1) THEN "right" ELSE "none"
WallY(b, dt_) ==
    LET y1 == Add(b.y, Mul(b.vy, dt_))
    IN  IF Le(y1, Add(Rat(MARGIN), b.r)) THEN "top"
        ELSE IF Le(Sub(Sub(Rat(HEIGHT), Rat(MARGIN)), b.r), y1) THEN "bottom" ELSE "none"

\* the reflected velocity component does not point out of the arena
InwardAfter(before, after, dt_) ==
    /\ WallX(before, dt_) = "left" => Le(Zero, after.vx)
    /\ WallX(before, dt_) = "right" => Le(after.vx, Zero)
    /\ WallY(before, dt_) = "top" => Le(Zero, after.vy)
    /\ WallY(before, dt_) = "bottom" => Le(after.vy, Zero)

\* the latest step was update on body k
JustUpdated(k) ==
    /\ log /= <<>>
    /\ log[Len(log)].op = "update"
    /\ log[Len(log)].i = k

\* C27: in the full simulation, whenever update negates a velocity component
\* because the body is at or beyond a wall, the component then points away
\* from that wall into the arena, or is 0.
C27_ReflectionInward ==
    \A k \in 1..Len(particles) :
        JustUpdated(k) => InwardAfter(old[k], particles[k], dt)

----------------------------------------------------------------------------
(* The weapon magazine (val6.py 879-920 and 1117-1130; the Weapon class of *)
(* version 2, val6.py 247-287, is the same code but for the bullet speed). *)
(* The player holds one of its weapons; shoot_from, Weapon.shoot,          *)
(* start_reload and finish_reload_if_needed are called in any order, each  *)
(* at a clock value not before the previous call's.  gs.shooter is the     *)
(* player, gs.made the number of bullets the latest call made, old the     *)
(* weapon before the latest call and log[1] its record.                    *)

MaxWeaponCalls == 8

\* the clock between two calls, in ms: the same reading, more than every
\* fire_rate, and the Sheriff's reload_time
WeaponAdvances == {0, 600, 2000}

held(shooter) == shooter.weapons[shooter.cur_weapon_idx]

InitWeapon ==
    /\ \E k \in 1..3 :
        gs = [shooter |-> [Player(120, 350, "Jett") EXCEPT !.cur_weapon_idx = k],
              made |-> 0]
    /\ pc = "play"
    /\ now = 0
    /\ dt = 0
    /\ ticks = 0
    /\ frames = 0
    /\ i = 0
    /\ running = TRUE
    /\ hist = <<>>
    /\ log = <<>>
    /\ particles = <<>>
    /\ cand = <<>>
    /\ j = 0
    /\ last = Zero
    /\ trailed = FALSE
    /\ old = held(gs.shooter)

\* shoot_from(gs.player, mouse_pos, now, gs)
CallShootFrom ==
    /\ frames < MaxWeaponCalls
    /\ \E e \in WeaponAdvances :
        LET res == shoot_from(gs.shooter, 0, <<900 * U, 350 * U>>, now + e, <<3601, 0>>)
        IN  /\ now' = now + e
            /\ gs' = [shooter |-> res[1], made |-> Len(res[2])]
    /\ log' = <<[op |-> "shoot_from"]>>
    /\ old' = held(gs.shooter)
    /\ frames' = frames + 1
    /\ UNCHANGED <<pc, dt, ticks, i, running, hist, particles, cand, j, last, trailed>>

\* w.shoot(owner, target_pos, now)
CallShoot ==
    /\ frames < MaxWeaponCalls
    /\ \E e \in WeaponAdvances :
        LET k == gs.shooter.cur_weapon_idx
            res == weapon_shoot(held(gs.shooter), k, 0, gs.shooter.pos,
                                <<900 * U, 350 * U>>, now + e, <<3601, 0>>)
        IN  /\ now' = now + e
            /\ gs' = [shooter |-> [gs.shooter EXCEPT !.weapons[k] = res[1]],
                      made |-> Len(res[2])]
    /\ log' = <<[op |-> "shoot"]>>
    /\ old' = held(gs.shooter)
    /\ frames' = frames + 1
    /\ UNCHANGED <<pc, dt, ticks, i, running, hist, particles, cand, j, last, trailed>>

\* w.start_reload(now)
CallStartReload ==
    /\ frames < MaxWeaponCalls
    /\ \E e \in WeaponAdvances :
        LET k == gs.shooter.cur_weapon_idx
        IN  /\ now' = now + e
            /\ gs' = [shooter |-> [gs.shooter EXCEPT
                                      !.weapons[k] = start_reload(@, k, now + e)],
                      made |-> 0]
    /\ log' = <<[op |-> "start_reload"]>>
    /\ old' = held(gs.shooter)
    /\ frames' = frames + 1
    /\ UNCHANGED <<pc, dt, ticks, i, running, hist, particles, cand, j, last, trailed>>

\* w.finish_reload_if_needed(now)
CallFinishReload ==
    /\ frames < MaxWeaponCalls
    /\ \E e \in WeaponAdvances :
        LET k == gs.shooter.cur_weapon_idx
        IN  /\ now' = now + e
            /\ gs' = [shooter |-> [gs.shooter EXCEPT
                                      !.weapons[k] = finish_reload_if_needed(@, k, now + e)],
                      made |-> 0]
    /\ log' = <<[op |-> "finish_reload"]>>
    /\ old' = held(gs.shooter)
    /\ frames' = frames + 1
    /\ UNCHANGED <<pc, dt, ticks, i, running, hist, particles, cand, j, last, trailed>>

NextWeapon ==
    \/ CallShootFrom
    \/ CallShoot
    \/ CallStartReload
    \/ CallFinishReload

SpecWeapon == InitWeapon /\ [][NextWeapon]_vars

\* C28: under any interleaving of shoot_from, Weapon.shoot, start_reload and
\* finish_reload_if_needed with a non-decreasing clock: 0 <= cur_mag <= mag;
\* a call made while reloading_until > now makes no bullet and leaves cur_mag
\* alone; start_reload changes nothing when the magazine is full or a reload
\* is running; and finish_reload_if_needed called with
\* now >= reloading_until > 0 sets cur_mag = mag and reloading_until = -1.
C28_Magazine ==
    LET k == gs.shooter.cur_weapon_idx
        w == held(gs.shooter)
    IN  /\ 0 <= w.cur_mag /\ w.cur_mag <= WeaponSpecs[k].mag
        /\ (log /= <<>> /\ old.reloading_until > now) =>
              gs.made = 0 /\ w.cur_mag = old.cur_mag
        /\ (/\ log /= <<>> /\ log[1].op = "start_reload"
            /\ old.cur_mag = WeaponSpecs[k].mag \/ old.reloading_until > now) =>
              w = old
        /\ (/\ log /= <<>> /\ log[1].op = "finish_reload"
            /\ old.reloading_until > 0 /\ now >= old.reloading_until) =>
              w.cur_mag = WeaponSpecs[k].mag /\ w.reloading_until = -1000

\* C28 witness: the magazine was shot empty, a reload was started and has
\* run out, and finish_reload_if_needed has just refilled the magazine.
C28_Witness ==
    /\ log /= <<>> /\ log[1].op = "finish_reload"
    /\ old.cur_mag = 0 /\ old.reloading_until > 0
    /\ held(gs.shooter).cur_mag = WeaponSpecs[gs.shooter.cur_weapon_idx].mag
    /\ held(gs.shooter).reloading_until = -1000

----------------------------------------------------------------------------
(* Kills and deaths (val6.py 1034-1052, 1135-1140, 1286-1318).  The game   *)
(* as constructed, with bot 1 spawned 78 px from the player and the other  *)
(* bots at the far side; the player may switch to the Sheriff and may hold *)
(* the mouse button down with the pointer on bot 1.  The rest of the frame *)
(* is the main loop's: the bots, the bullets, the round timer.             *)

InitDuel ==
    /\ gs = [player |-> Player(120, HEIGHT_V3 \div 2, "Phoenix"),
             bots |-> [k \in 1..N_BOTS |->
                          IF k = 1 THEN Player(60, 300, "BotAgent")
                          ELSE Player(WIDTH_V3 - 60, 350, "BotAgent")],
             bullets |-> <<>>, round_start |-> 0, round_end |-> ROUND_TIME]
    /\ hist = [heals |-> 0, resets |-> 0]
    /\ pc = "tick"
    /\ ticks = 0
    /\ now = 0
    /\ dt = 0
    /\ running = TRUE
    /\ frames = 0
    /\ i = 0
    /\ log = <<>>
    /\ particles = <<>>
    /\ cand = <<>>
    /\ j = 0
    /\ last = Zero
    /\ trailed = FALSE
    /\ old = <<>>

\* an event of the queue: KEYDOWN K_3
Key3 ==
    /\ pc = "events"
    /\ gs.player.cur_weapon_idx /= 3
    /\ gs' = [gs EXCEPT !.player = switch_weapon(@, 3)]
    /\ UNCHANGED <<hist, log, pc, ticks, dt, now, running, frames, i, particle_vars>>

\* the event queue is empty: the movement block with no key held, the shot
\* if the mouse button is down, then player.update(..)
DuelPlayerStep ==
    /\ pc = "events"
    /\ \E mouse_down \in BOOLEAN, y \in RespawnYs, x \in {80, WIDTH_V3 - 80} :
        LET moved == movement(gs.player, 0, 0)
            shot == IF mouse_down
                    THEN shoot_from(moved, 0, gs.bots[1].pos, now, <<3601, 0>>)
                    ELSE <<moved, <<>>>>
        IN  gs' = [gs EXCEPT !.player = player_update(shot[1], dt, now, <<x * U, y * U>>),
                             !.bullets = @ \o shot[2]]
    /\ i' = 1
    /\ pc' = "bots"
    /\ UNCHANGED <<hist, log, ticks, dt, now, running, frames, particle_vars>>

NextDuel ==
    \/ GameTick
    \/ Key3
    \/ DuelPlayerStep
    \/ BotStep
    \/ BulletsStep
    \/ RoundReset
    \/ FrameEnd

SpecDuel == InitDuel /\ [][NextDuel]_vars

RECURSIVE SumKills(_, _)
SumKills(g, o) == IF o < 0 THEN 0 ELSE Ent(g, o).kills + SumKills(g, o - 1)
RECURSIVE SumDeaths(_, _)
SumDeaths(g, o) == IF o < 0 THEN 0 ELSE Ent(g, o).deaths + SumDeaths(g, o - 1)

\* the records of lg in which a bullet hit entity v
HitsOn(lg, v) == {m \in 1..Len(lg) : lg[m].fate = "hit" /\ lg[m].victim = v}

\* the owner of the last bullet of lg that hit entity v
Killer(lg, v) ==
    lg[CHOOSE m \in HitsOn(lg, v) : \A n \in HitsOn(lg, v) : n <= m].b.owner

\* the entities that the step turns from alive to dead
Died(g, h) == {v \in 0..Len(g.bots) : Ent(g, v).alive /\ ~Ent(h, v).alive}

\* what a step may do to the accounts
DeathStep ==
    \A o \in 0..Len(gs.bots) :
        /\ Ent(gs', o).deaths = Ent(gs, o).deaths + (IF o \in Died(gs, gs') THEN 1 ELSE 0)
        /\ pc = "bullets" =>
            /\ Ent(gs', o).kills =
                  Ent(gs, o).kills + Cardinality({v \in Died(gs, gs') : Killer(log', v) = o})
            /\ ~Ent(gs, o).alive => HitsOn(log', o) = {} /\ Ent(gs', o).hp >= Ent(gs, o).hp
        /\ pc /= "bullets" => Ent(gs', o).kills = Ent(gs, o).kills

\* C29: deaths grows by exactly 1 per alive-to-dead transition; a dead
\* entity is hit by no bullet and loses no hp; at the end of each frame every
\* alive entity has 0 < hp <= max_hp; and the owner of a bullet gains exactly
\* one kill per victim the bullet turns dead, so that the kills of all
\* entities sum to their deaths.
C29_DeathAccounting ==
    /\ [](SumKills(gs, Len(gs.bots)) = SumDeaths(gs, Len(gs.bots)))
    /\ [](pc = "tick" =>
            \A o \in 0..Len(gs.bots) :
                Ent(gs, o).alive => 0 < Ent(gs, o).hp /\ Ent(gs, o).hp <= MAX_HP * U)
    /\ [][DeathStep]_vars

\* C29 witness: the player's bullet has killed bot 1, the player has the kill
\* and Phoenix's heal, the bot has the death, and the frame is over.
C29_Witness ==
    /\ pc = "tick"
    /\ gs.player.kills = 1 /\ gs.bots[1].deaths = 1 /\ ~gs.bots[1].alive
    /\ gs.player.alive /\ gs.player.hp < MAX_HP * U

----------------------------------------------------------------------------
(* The abilities (val6.py 941-949, 1046-1052, 1193-1231, 1252-1257; the    *)
(* Ability class of valorant.py 71-81 is the same code).  The handlers of  *)
(* Space, Q and E are called in any order, each at a clock value not       *)
(* before the previous one's; in between the player may switch to Jett,    *)
(* make a kill or be killed.  old is the player before the latest call,    *)
(* hist the time of the latest use of each ability that took effect and    *)
(* whether on_kill has reset dash.last since the latest dash, log[1] the   *)
(* record of the latest call with hist's entry for its ability.            *)

MaxAbilityCalls == 5

\* the clock between two calls, in ms
AbilityAdvances == {0, 3000, 6000}

\* the times of the latest use that took effect: none yet
NoUse == {}

InitAbility ==
    /\ gs = [player |-> Player(120, HEIGHT_V3 \div 2, "Phoenix")]
    /\ hist = [dash |-> NoUse, smoke |-> NoUse, shield |-> NoUse, refreshed |-> FALSE]
    /\ old = Player(120, HEIGHT_V3 \div 2, "Phoenix")
    /\ log = <<>>
    /\ pc = "play"
    /\ ticks = 0
    /\ now = 0
    /\ dt = 0
    /\ running = TRUE
    /\ frames = 0
    /\ i = 0
    /\ particles = <<>>
    /\ cand = <<>>
    /\ j = 0
    /\ last = Zero
    /\ trailed = FALSE

\* KEYDOWN K_F2: player.agent = "Jett"
PressF2 ==
    /\ gs.player.agent /= "Jett"
    /\ gs' = [gs EXCEPT !.player.agent = "Jett"]
    /\ old' = gs.player
    /\ log' = <<[op |-> "agent", prev |-> NoUse, refreshed |-> FALSE]>>
    /\ UNCHANGED <<hist, pc, ticks, now, dt, running, frames, i, particles, cand, j,
                   last, trailed>>

\* KEYDOWN K_SPACE
PressSpace ==
    /\ frames < MaxAbilityCalls
    /\ \E e \in AbilityAdvances :
        LET after == key_space(gs.player, Units(<<700, 350>>), now + e)
        IN  /\ now' = now + e
            /\ gs' = [gs EXCEPT !.player = after]
            /\ hist' = IF after /= gs.player
                       THEN [hist EXCEPT !.dash = {now + e}, !.refreshed = FALSE]
                       ELSE hist
    /\ old' = gs.player
    /\ log' = <<[op |-> "dash", prev |-> hist.dash, refreshed |-> hist.refreshed]>>
    /\ frames' = frames + 1
    /\ UNCHANGED <<pc, ticks, dt, running, i, particles, cand, j, last, trailed>>

\* KEYDOWN K_q
PressQ ==
    /\ frames < MaxAbilityCalls
    /\ \E e \in AbilityAdvances :
        LET after == key_q(gs.player, now + e)
        IN  /\ now' = now + e
            /\ gs' = [gs EXCEPT !.player = after]
            /\ hist' = IF after /= gs.player THEN [hist EXCEPT !.shield = {now + e}]
                       ELSE hist
    /\ old' = gs.player
    /\ log' = <<[op |-> "shield", prev |-> hist.shield, refreshed |-> FALSE]>>
    /\ frames' = frames + 1
    /\ UNCHANGED <<pc, ticks, dt, running, i, particles, cand, j, last, trailed>>

\* KEYDOWN K_e, MOUSEBUTTONDOWN 3
PressE ==
    /\ frames < MaxAbilityCalls
    /\ \E e \in AbilityAdvances :
        LET after == key_e(gs.player, Units(<<700, 350>>), now + e)
        IN  /\ now' = now + e
            /\ gs' = [gs EXCEPT !.player = after]
            /\ hist' = IF after /= gs.player THEN [hist EXCEPT !.smoke = {now + e}]
                       ELSE hist
    /\ old' = gs.player
    /\ log' = <<[op |-> "smoke", prev |-> hist.smoke, refreshed |-> FALSE]>>
    /\ frames' = frames + 1
    /\ UNCHANGED <<pc, ticks, dt, running, i, particles, cand, j, last, trailed>>

\* a bullet of the player has killed its victim: b.owner.on_kill(t, now)
AbilityKill ==
    /\ frames < MaxAbilityCalls
    /\ gs' = [gs EXCEPT !.player = on_kill(@, now)]
    /\ hist' = IF gs.player.agent = "Jett" THEN [hist EXCEPT !.refreshed = TRUE] ELSE hist
    /\ old' = gs.player
    /\ log' = <<[op |-> "kill", prev |-> NoUse, refreshed |-> FALSE]>>
    /\ frames' = frames + 1
    /\ UNCHANGED <<pc, ticks, now, dt, running, i, particles, cand, j, last, trailed>>

\* a bullet takes the player's last hit points
AbilityDie ==
    /\ frames < MaxAbilityCalls
    /\ gs.player.alive
    /\ gs' = [gs EXCEPT !.player = take_damage(@, @.hp, now)]
    /\ old' = gs.player
    /\ log' = <<[op |-> "die", prev |-> NoUse, refreshed |-> FALSE]>>
    /\ frames' = frames + 1
    /\ UNCHANGED <<hist, pc, ticks, now, dt, running, i, particles, cand, j, last,
                   trailed>>

NextAbility ==
    \/ PressF2
    \/ PressSpace
    \/ PressQ
    \/ PressE
    \/ AbilityKill
    \/ AbilityDie

SpecAbility == InitAbility /\ [][NextAbility]_vars

\* the cooldown in ms and the `last` of the ability that the call op uses
CooldownOf(op) == IF op = "dash" THEN 6000 ELSE IF op = "smoke" THEN 12000 ELSE 15000
LastOf(p, op) ==
    IF op = "dash" THEN p.dash_last ELSE IF op = "smoke" THEN p.smoke_last
    ELSE p.shield_last

\* C30: a use of dash, smoke or shield takes effect only when
\* now - last >= cooldown, so two uses of the same ability that take effect
\* are at least 6, 12 and 15 s apart, except a dash after a Jett on-kill
\* refresh; a refused use changes neither the player's position, smokes,
\* shield_active_until nor the ability's last.
C30_Cooldown ==
    (log /= <<>> /\ log[1].op \in {"dash", "smoke", "shield"}) =>
        LET op == log[1].op
            p == gs.player
        IN  /\ p /= old => now - LastOf(old, op) >= CooldownOf(op)
            /\ (p /= old /\ ~log[1].refreshed) =>
                  \A t \in log[1].prev : now - t >= CooldownOf(op)
            /\ now - LastOf(old, op) < CooldownOf(op) =>
                  /\ p.pos = old.pos
                  /\ p.smokes = old.smokes
                  /\ p.shield_active_until = old.shield_active_until
                  /\ LastOf(p, op) = LastOf(old, op)

\* C30 witness: a dash takes effect less than 6 s after the previous one,
\* Jett's kill having reset dash.last in between, while a smoke lies and the
\* shield has been used.
C30_Witness ==
    /\ log /= <<>> /\ log[1].op = "dash"
    /\ gs.player /= old
    /\ log[1].refreshed /\ \E t \in log[1].prev : now - t < 6000
    /\ gs.player.smokes /= <<>>
    /\ hist.shield /= NoUse

====
